---- MODULE Spec2Model ----
(***************************************************************************)
(* Fuzzy search and query cache of the Ramayanam API.                      *)
(*                                                                         *)
(* Modelled code:                                                          *)
(*   api/services/optimized_fuzzy_search_service.py                        *)
(*       OptimizedFuzzySearchService (the service the controller uses)     *)
(*   api/controllers/sloka_controller.py                                   *)
(*       fuzzy_search_slokas (HTTP translation search with pagination)     *)
(*   api/config.py  Config                                                 *)
(*   api/services/fuzzy_search_service.py                                  *)
(*       FuzzySearchService (word indices, candidates, chunking)           *)
(*                                                                         *)
(* The similarity scorer (rapidfuzz.fuzz.partial_ratio) is a library       *)
(* primitive: the corpus gives, for every verse field, the score of the    *)
(* query word against it and whether the field contains the query word.    *)
(* Sizes (cache capacity, TTL, memory budget, page size, chunk sizes) are  *)
(* the program's constants scaled down; the comparisons are the code's.    *)
(***************************************************************************)
EXTENDS Integers, Sequences, FiniteSets, TLC

\* ------------------------------------------------------------------------
\* Bounds of the model
\* ------------------------------------------------------------------------

\* number of verses of the corpus
NumVerses == 4

\* time.time() runs from 0 to MaxTime
MaxTime == 2

\* number of calls made in one behaviour of the translation search
MaxOps == 3

\* number of calls made in one behaviour of the service entry points
MaxEntryOps == 2

\* number of requests made in one behaviour of the HTTP search
MaxHttpOps == 1

\* number of requests made in one behaviour of a paging client
MaxPagingOps == 3

\* number of calls made in one behaviour of the cache specifications
MaxCacheOps == 4

\* number of calls made in one behaviour of the LRU specification
MaxLruOps == 10

\* ------------------------------------------------------------------------
\* Program constants (scaled)
\* ------------------------------------------------------------------------

\* self._cache_ttl = 600 (seconds)
CacheTTL == 2

\* self._cache_max_size = 200, as used by the search specifications
SmallCacheSize == 2

\* self._cache_max_size = 200, as used by the LRU specification
\* (the smallest capacity n with n // 4 > 1)
LruCacheSize == 8

\* self._cache_max_memory_mb = 50, in units of StrLen
SmallCacheMemory == 4

\* self._cache_max_memory_mb = 50, in units of StrLen (LRU specification)
LruCacheMemory == 9

\* remove_count = max(1, len(self._search_cache) // 4)
SweepDivisor == 4

\* threshold=70 default of _get_cache_key / hard-wired in search_translation_fuzzy
DefaultThreshold == 70

\* Config.MAX_PAGE_SIZE = 50
MAX_PAGE_SIZE == 2

\* max_total_results = page_size * 100
ResultLimitFactor == 2

\* kanda=None in a cache key / kanda=0 ("all kandas") in a request
NoKanda == 0

\* ------------------------------------------------------------------------
\* State
\* ------------------------------------------------------------------------
VARIABLES
    corpus,            \* ramayanam_data flattened in iteration order
    search_cache,      \* self._search_cache  (OrderedDict, oldest first)
    cache_timestamps,  \* self._cache_timestamps
    cache_stats,       \* self._cache_stats
    cache_max_size,    \* self._cache_max_size
    cache_max_memory,  \* self._cache_max_memory_mb
    now,               \* time.time()
    ret,               \* the last call and what it returned
    prev,              \* the call before the last one
    putLog,            \* history: latest put of every key still stored
    useOrder,          \* history: keys by last use (insertion or hit)
    sweep,             \* history: pages collected by a client paging through;
                       \* self._search_stats where the streams of threads run
    nops,              \* number of calls made
    cache_lock,        \* self._cache_lock: the thread holding it, 0 when free
    pc,                \* position of every thread and generator in its code
    frame              \* local variables of every thread and generator

vars == <<corpus, search_cache, cache_timestamps, cache_stats, cache_max_size,
          cache_max_memory, now, ret, prev, putLog, useOrder, sweep, nops,
          cache_lock, pc, frame>>

\* ------------------------------------------------------------------------
\* Python helpers
\* ------------------------------------------------------------------------
Min(a, b) == IF a < b THEN a ELSE b
Max(a, b) == IF a > b THEN a ELSE b

\* index normalisation of a slice bound
SliceBound(i, n) == IF i < 0 THEN Max(0, n + i) ELSE Min(i, n)

\* s[a:b]
PySlice(s, a, b) ==
    LET lo == SliceBound(a, Len(s))
        hi == SliceBound(b, Len(s))
    IN  IF hi <= lo THEN <<>> ELSE SubSeq(s, lo + 1, hi)

\* a // b  (floor division, b # 0)
PyFloorDiv(a, b) == IF b > 0 THEN a \div b ELSE (0 - a) \div (0 - b)

\* ------------------------------------------------------------------------
\* Query cache
\* ------------------------------------------------------------------------

\* f"{search_type}:{query}:{kanda}:{threshold}" (hashed)
GetCacheKey(query, search_type, kanda, threshold) ==
    [search_type |-> search_type, query |-> query, kanda |-> kanda,
     threshold |-> threshold]

CacheKeys(sc) == {sc[i].key : i \in DOMAIN sc}

\* self._search_cache[key]
CacheLookup(sc, key) ==
    LET i == CHOOSE j \in DOMAIN sc : sc[j].key = key IN sc[i].val

\* del self._search_cache[key]
DelEntry(sc, key) == SelectSeq(sc, LAMBDA e : e.key # key)

DelTimestamp_Keep(ts, key) == ts

\* del self._cache_timestamps[key]
DelTimestamp(ts, key) == [k \in (DOMAIN ts) \ {key} |-> ts[k]]

\* self._search_cache.move_to_end(key)
MoveToEnd(sc, key) ==
    Append(DelEntry(sc, key), [key |-> key, val |-> CacheLookup(sc, key)])

\* self._search_cache[key] = val  (an existing key keeps its position)
SetEntry(sc, key, val) ==
    IF key \in CacheKeys(sc)
    THEN [i \in DOMAIN sc |->
            IF sc[i].key = key THEN [key |-> key, val |-> val] ELSE sc[i]]
    ELSE Append(sc, [key |-> key, val |-> val])

\* self._cache_timestamps[key] = t
SetTimestamp(ts, key, t) ==
    [k \in (DOMAIN ts) \cup {key} |-> IF k = key THEN t ELSE ts[k]]

\* The cache fields as one value: sc, ts, st, max_size, max_memory
CacheState ==
    [sc |-> search_cache, ts |-> cache_timestamps, st |-> cache_stats,
     max_size |-> cache_max_size, max_memory |-> cache_max_memory]

GetCachedResult_Sliding(cs, cache_key, t) ==
    IF cache_key \in CacheKeys(cs.sc)
    THEN LET timestamp == IF cache_key \in DOMAIN cs.ts
                          THEN cs.ts[cache_key] ELSE 0
         IN  IF t - timestamp < CacheTTL
             THEN [cs  |-> [cs EXCEPT !.sc = MoveToEnd(cs.sc, cache_key),
                                      !.ts = SetTimestamp(cs.ts, cache_key, t),
                                      !.st.hits = @ + 1],
                   hit |-> TRUE,
                   val |-> CacheLookup(cs.sc, cache_key)]
             ELSE [cs  |-> [cs EXCEPT !.sc = DelEntry(cs.sc, cache_key),
                                      !.ts = DelTimestamp(cs.ts, cache_key),
                                      !.st.evictions = @ + 1,
                                      !.st.misses = @ + 1],
                   hit |-> FALSE,
                   val |-> <<>>]
    ELSE [cs |-> [cs EXCEPT !.st.misses = @ + 1], hit |-> FALSE, val |-> <<>>]

\* _get_cached_result: hit is FALSE for the returned None
GetCachedResult(cs, cache_key, t) ==
    IF cache_key \in CacheKeys(cs.sc)
    THEN LET timestamp == IF cache_key \in DOMAIN cs.ts
                          THEN cs.ts[cache_key] ELSE 0
         IN  IF t - timestamp < CacheTTL
             THEN [cs  |-> [cs EXCEPT !.sc = MoveToEnd(cs.sc, cache_key),
                                      !.st.hits = @ + 1],
                   hit |-> TRUE,
                   val |-> CacheLookup(cs.sc, cache_key)]
             ELSE [cs  |-> [cs EXCEPT !.sc = DelEntry(cs.sc, cache_key),
                                      !.ts = DelTimestamp(cs.ts, cache_key),
                                      !.st.evictions = @ + 1,
                                      !.st.misses = @ + 1],
                   hit |-> FALSE,
                   val |-> <<>>]
    ELSE [cs |-> [cs EXCEPT !.st.misses = @ + 1], hit |-> FALSE, val |-> <<>>]

\* len(str(self._search_cache)): one unit per entry and one per cached result
RECURSIVE StrLen(_)
StrLen(sc) ==
    IF sc = <<>> THEN 0 ELSE 1 + Len(Head(sc).val) + StrLen(Tail(sc))

RECURSIVE EvictOldest_Uncounted(_, _)
EvictOldest_Uncounted(cs, count) ==
    IF count <= 0 \/ cs.sc = <<>> THEN cs
    ELSE LET oldest_key == Head(cs.sc).key
         IN  EvictOldest_Uncounted(
                 [cs EXCEPT !.sc = Tail(cs.sc),
                            !.ts = DelTimestamp(cs.ts, oldest_key)],
                 count - 1)

\* oldest_key = next(iter(...)); del ...; evictions += 1   (count times)
RECURSIVE EvictOldest(_, _)
EvictOldest(cs, count) ==
    IF count <= 0 \/ cs.sc = <<>> THEN cs
    ELSE LET oldest_key == Head(cs.sc).key
         IN  EvictOldest([cs EXCEPT !.sc = Tail(cs.sc),
                                    !.ts = DelTimestamp(cs.ts, oldest_key),
                                    !.st.evictions = @ + 1],
                         count - 1)

CleanupCacheByMemory_FloorOnly(cs) ==
    IF StrLen(cs.sc) > cs.max_memory
    THEN EvictOldest(cs, Len(cs.sc) \div SweepDivisor)
    ELSE cs

\* _cleanup_cache_by_memory
CleanupCacheByMemory(cs) ==
    IF StrLen(cs.sc) > cs.max_memory
    THEN EvictOldest(cs, Max(1, Len(cs.sc) \div SweepDivisor))
    ELSE cs

RECURSIVE EvictWhileFull_Strict(_)
EvictWhileFull_Strict(cs) ==
    IF Len(cs.sc) > cs.max_size /\ cs.sc # <<>>
    THEN EvictWhileFull_Strict(EvictOldest(cs, 1))
    ELSE cs

\* while len(self._search_cache) >= self._cache_max_size: evict the oldest
RECURSIVE EvictWhileFull(_)
EvictWhileFull(cs) ==
    IF Len(cs.sc) >= cs.max_size /\ cs.sc # <<>>
    THEN EvictWhileFull(EvictOldest(cs, 1))
    ELSE cs

CacheResult_EvictNewest(cs, cache_key, result, t) ==
    LET swept == CleanupCacheByMemory(cs)
        room  == IF Len(swept.sc) >= swept.max_size /\ swept.sc # <<>>
                 THEN [swept EXCEPT
                         !.sc = SubSeq(swept.sc, 1, Len(swept.sc) - 1),
                         !.ts = DelTimestamp(swept.ts,
                                             swept.sc[Len(swept.sc)].key),
                         !.st.evictions = @ + 1]
                 ELSE swept
    IN  [room EXCEPT !.sc = SetEntry(room.sc, cache_key, result),
                     !.ts = SetTimestamp(room.ts, cache_key, t)]

\* _cache_result
CacheResult(cs, cache_key, result, t) ==
    LET swept == CleanupCacheByMemory(cs)
        room  == EvictWhileFull(swept)
    IN  [room EXCEPT !.sc = SetEntry(room.sc, cache_key, result),
                     !.ts = SetTimestamp(room.ts, cache_key, t)]

\* ------------------------------------------------------------------------
\* Calls on the cache alone (any interleaving of the query threads' cache
\* calls is a sequence of such calls: every call runs under self._cache_lock)
\* ------------------------------------------------------------------------

\* a result entry as the chunk search builds it
Result(sloka_id, ratio, source) ==
    [sloka_number |-> sloka_id, ratio |-> ratio, source |-> source]

\* cache keys and values of the cache specifications
CacheKeyOf(i) == GetCacheKey(<<"q">>, "translation_kanda", i, DefaultThreshold)
CacheValues ==
    { <<>>,
      <<Result(1, 100, "ramayana")>>,
      <<Result(1, 100, "ramayana"), Result(2, 85, "ramayana")>> }

Range(s) == {s[i] : i \in DOMAIN s}

NoCall ==
    [op |-> "none", key |-> CacheKeyOf(0), hit |-> FALSE, val |-> <<>>,
     at |-> 0, before |-> <<>>, over |-> FALSE]

NoPut == [live |-> FALSE, val |-> <<>>, at |-> 0 - 1, hits |-> 0]

SetCache(cs) ==
    /\ search_cache' = cs.sc
    /\ cache_timestamps' = cs.ts
    /\ cache_stats' = cs.st

\* history of a lookup of key: a hit is a use of the entry
LogGet(key, g) ==
    /\ putLog' = IF g.hit /\ key \in DOMAIN putLog
                 THEN [putLog EXCEPT ![key].hits = @ + 1] ELSE putLog
    /\ useOrder' = IF g.hit
                   THEN Append(SelectSeq(useOrder, LAMBDA k : k # key), key)
                   ELSE SelectSeq(useOrder, LAMBDA k : k \in CacheKeys(g.cs.sc))

\* history of a put of key: the insertion of a key is a use of the entry,
\* the entries the put removed are no longer stored
LogPut(key, val, cs, after) ==
    LET room == EvictWhileFull(CleanupCacheByMemory(cs))
        kept == SelectSeq(useOrder,
                          LAMBDA k : k \in CacheKeys(after.sc)
                                     /\ (k = key => k \in CacheKeys(room.sc)))
    IN  /\ putLog' = [k \in DOMAIN putLog |->
                        IF k = key
                        THEN [live |-> TRUE, val |-> val, at |-> now, hits |-> 0]
                        ELSE IF k \in CacheKeys(cs.sc) /\ k \notin CacheKeys(after.sc)
                             THEN [putLog[k] EXCEPT !.live = FALSE]
                             ELSE putLog[k]]
        /\ useOrder' = IF key \in Range(kept) THEN kept ELSE Append(kept, key)

\* a query thread calls _get_cached_result(key)
Get(key) ==
    LET g == GetCachedResult(CacheState, key, now)
    IN  /\ SetCache(g.cs)
        /\ ret' = [op |-> "get", key |-> key, hit |-> g.hit, val |-> g.val,
                   at |-> now, before |-> useOrder,
                   over |-> StrLen(search_cache) > cache_max_memory]
        /\ LogGet(key, g)
        /\ nops' = nops + 1
        /\ UNCHANGED <<corpus, cache_max_size, cache_max_memory, now, prev, sweep,
                   cache_lock, pc, frame>>

\* a query thread calls _cache_result(key, val)
Put(key, val) ==
    LET after == CacheResult(CacheState, key, val, now)
    IN  /\ SetCache(after)
        /\ ret' = [op |-> "put", key |-> key, hit |-> FALSE, val |-> val,
                   at |-> now, before |-> useOrder,
                   over |-> StrLen(search_cache) > cache_max_memory]
        /\ LogPut(key, val, CacheState, after)
        /\ nops' = nops + 1
        /\ UNCHANGED <<corpus, cache_max_size, cache_max_memory, now, prev, sweep,
                   cache_lock, pc, frame>>

\* time passes
Tick ==
    /\ now < MaxTime
    /\ now' = now + 1
    /\ UNCHANGED <<corpus, search_cache, cache_timestamps, cache_stats,
                   cache_max_size, cache_max_memory, ret, prev, putLog,
                   useOrder, sweep, nops,
                   cache_lock, pc, frame>>

\* the cache after __init__
EmptyCache ==
    /\ search_cache = <<>>
    /\ cache_timestamps = << >>
    /\ cache_stats = [hits |-> 0, misses |-> 0, evictions |-> 0]
    /\ now = 0
    /\ nops = 0
    /\ cache_lock = 0

\* no thread or generator is under way: every call runs from start to end
NoThreads ==
    /\ pc = <<>>
    /\ frame = <<>>

\* --- the cache under arbitrary gets and puts, small capacity
SmallKeys == {CacheKeyOf(i) : i \in 1 .. SmallCacheSize + 1}

InitCache ==
    /\ EmptyCache
    /\ NoThreads
    /\ corpus = <<>>
    /\ cache_max_size = SmallCacheSize
    /\ cache_max_memory = SmallCacheMemory
    /\ ret = NoCall
    /\ prev = NoCall
    /\ putLog = [k \in SmallKeys |-> NoPut]
    /\ useOrder = <<>>
    /\ sweep = <<>>

NextCache ==
    \/ /\ nops < MaxCacheOps
       /\ \E k \in SmallKeys : Get(k)
    \/ /\ nops < MaxCacheOps
       /\ \E k \in SmallKeys, v \in CacheValues : Put(k, v)
    \/ Tick

SpecCache == InitCache /\ [][NextCache]_vars

\* --- the cache at a capacity where the memory sweep removes several entries
LruKeys == {CacheKeyOf(i) : i \in 1 .. LruCacheSize + 1}

\* keys are interchangeable: a new key is the first one not used so far
Used == {k \in DOMAIN putLog : putLog[k].at >= 0}
FreshKey(k) == k.kanda = Cardinality(Used) + 1

\* the keys that are looked up and overwritten, and that may hold results
HotKeys == {CacheKeyOf(1), CacheKeyOf(2)}
LruValues == { <<>>, <<Result(1, 100, "ramayana")>> }

InitLru ==
    /\ EmptyCache
    /\ NoThreads
    /\ corpus = <<>>
    /\ cache_max_size = LruCacheSize
    /\ cache_max_memory = LruCacheMemory
    /\ ret = NoCall
    /\ prev = NoCall
    /\ putLog = [k \in LruKeys |-> NoPut]
    /\ useOrder = <<>>
    /\ sweep = <<>>

NextLru ==
    \/ /\ nops < MaxLruOps
       /\ \E k \in HotKeys : Get(k)
    \/ /\ nops < MaxLruOps
       /\ \E k \in LruKeys, v \in LruValues :
            /\ FreshKey(k) \/ k \in HotKeys
            /\ (v # <<>> => k \in HotKeys)
            /\ Put(k, v)

SpecLru == InitLru /\ [][NextLru]_vars

\* ------------------------------------------------------------------------
\* Strings, corpus and indices
\* ------------------------------------------------------------------------

\* str.lower()
LowerChar(ch) == IF ch = "Q" THEN "q" ELSE ch
Lower(s) == [i \in DOMAIN s |-> LowerChar(s[i])]

\* str.strip()
RECURSIVE LStrip(_)
LStrip(s) == IF s # <<>> /\ Head(s) = " " THEN LStrip(Tail(s)) ELSE s
RECURSIVE RStrip(_)
RStrip(s) ==
    IF s # <<>> /\ s[Len(s)] = " " THEN RStrip(SubSeq(s, 1, Len(s) - 1)) ELSE s
Strip(s) == LStrip(RStrip(s))

\* A verse field (translation, sloka text, meaning) is a line of several
\* words; what the model keeps of it is what the scorer needs for the word
\* "q": ratio = fuzz.partial_ratio(field, "q"), has = ("q" in field).
\* A field that contains the word scores 100.
Field(ratio, has) == [ratio |-> ratio, has |-> has]

\* a field on which fuzz.partial_ratio raises an exception
Unscorable == [ratio |-> 0 - 1, has |-> FALSE]
Raises(field) == field.ratio < 0

\* fuzz.partial_ratio(text, query): 0 for the empty query, 100 for a
\* substring of the text (a blank is one)
PartialRatio(field, query) ==
    IF query = <<>> THEN 0
    ELSE IF query = <<" ">> THEN 100
    ELSE field.ratio

\* query in text
Contains(field, query) ==
    IF query = <<>> \/ query = <<" ">> THEN TRUE ELSE field.has

\* _build_search_indices: corpus entries are sloka_ref dicts in the
\* iteration order of kandas, sargas and slokas; every modelled verse has a
\* translation, a text and a meaning
TranslationIndex(c) == c
SanskritIndex(c) == c

\* results.sort(key=lambda x: x["ratio"], reverse=True): stable
RECURSIVE InsertByRatio(_, _)
InsertByRatio(x, sorted) ==
    IF sorted = <<>> THEN <<x>>
    ELSE IF Head(sorted).ratio >= x.ratio
         THEN <<Head(sorted)>> \o InsertByRatio(x, Tail(sorted))
         ELSE <<x>> \o sorted

RECURSIVE SortInto(_, _)
SortInto(s, sorted) ==
    IF s = <<>> THEN sorted
    ELSE SortInto(Tail(s), InsertByRatio(Head(s), sorted))

SortByRatioDesc(s) == SortInto(s, <<>>)

\* ------------------------------------------------------------------------
\* Chunk scoring
\* ------------------------------------------------------------------------

\* min(8, ...) workers of search_translation_fuzzy
TrMaxWorkers == 8

\* max(2, ...) workers of search_translation_fuzzy
TrMinWorkers == 2

\* len(self.translation_index) // 500
VersesPerWorker == 2

\* chunk_size = max(50, ...)
TrMinChunk == 1

\* the score of an item in sanskrit mode
SanskritRatio(item, query) ==
    Max(PartialRatio(item.sk, query), PartialRatio(item.mn, query))

\* scoring the item raises
ItemRaises(item, search_field) ==
    IF search_field = "translation"
    THEN Raises(item.tr)
    ELSE Raises(item.sk) \/ Raises(item.mn)

RECURSIVE ParallelSearchChunk_DropChunk(_, _, _, _)
ParallelSearchChunk_DropChunk(chunk, query, threshold, search_field) ==
    IF chunk = <<>> THEN <<>>
    ELSE LET item  == Head(chunk)
             ratio == IF search_field = "translation"
                      THEN PartialRatio(item.tr, query)
                      ELSE SanskritRatio(item, query)
             rest  == ParallelSearchChunk_DropChunk(Tail(chunk), query,
                                                    threshold, search_field)
         IN  IF \E i \in DOMAIN chunk : ItemRaises(chunk[i], search_field)
             THEN <<>>
             ELSE IF ratio > threshold
             THEN <<Result(item.id, ratio, "ramayana")>> \o rest
             ELSE rest

\* _parallel_search_chunk: an item whose scoring raises is logged and
\* skipped (except Exception: continue)
RECURSIVE ParallelSearchChunk(_, _, _, _)
ParallelSearchChunk(chunk, query, threshold, search_field) ==
    IF chunk = <<>> THEN <<>>
    ELSE LET item  == Head(chunk)
             ratio == IF search_field = "translation"
                      THEN PartialRatio(item.tr, query)
                      ELSE SanskritRatio(item, query)
             rest  == ParallelSearchChunk(Tail(chunk), query, threshold,
                                          search_field)
         IN  IF ItemRaises(item, search_field) THEN rest
             ELSE IF ratio > threshold
             THEN <<Result(item.id, ratio, "ramayana")>> \o rest
             ELSE rest

\* [index[i:i+chunk_size] for i in range(0, len(index), chunk_size)]
RECURSIVE Chunks(_, _)
Chunks(index, chunk_size) ==
    IF index = <<>> THEN <<>>
    ELSE <<PySlice(index, 0, chunk_size)>>
         \o Chunks(PySlice(index, chunk_size, Len(index)), chunk_size)

\* for future in futures: all_results.extend(future.result())
RECURSIVE CollectChunks(_, _, _, _)
CollectChunks(chunks, query, threshold, search_field) ==
    IF chunks = <<>> THEN <<>>
    ELSE ParallelSearchChunk(Head(chunks), query, threshold, search_field)
         \o CollectChunks(Tail(chunks), query, threshold, search_field)

\* the entries of the exact-match shortcut: ratio 100, no "source"
RECURSIVE ExactResults(_)
ExactResults(items) ==
    IF items = <<>> THEN <<>>
    ELSE <<Result(Head(items).id, 100, "none")>> \o ExactResults(Tail(items))

\* ------------------------------------------------------------------------
\* search_translation_fuzzy
\* ------------------------------------------------------------------------

\* what a service call hands back: the cache after it, the returned list,
\* the number of verses matched against the query, and whether the cache
\* was read and written
Outcome(cs, out, scored, read, wrote) ==
    [cs |-> cs, out |-> out, scored |-> scored, read |-> read, wrote |-> wrote]

SearchTranslationFuzzy(cs, c, raw_query, max_results, t) ==
    LET query == Strip(Lower(raw_query))
        cache_key == GetCacheKey(query, "translation", NoKanda, DefaultThreshold)
        cached == GetCachedResult(cs, cache_key, t)
        index == TranslationIndex(c)
        exact_matches == SelectSeq(index, LAMBDA item : Contains(item.tr, query))
        exact_results ==
            SortByRatioDesc(ExactResults(PySlice(exact_matches, 0, max_results)))
        optimal_workers ==
            Min(TrMaxWorkers, Max(TrMinWorkers, Len(index) \div VersesPerWorker))
        chunk_size == Max(TrMinChunk, Len(index) \div optimal_workers)
        all_results ==
            SortByRatioDesc(CollectChunks(Chunks(index, chunk_size), query,
                                          DefaultThreshold, "translation"))
        final_results == PySlice(all_results, 0, max_results)
    IN  IF query = <<>> THEN Outcome(cs, <<>>, 0, FALSE, FALSE)
        ELSE IF cached.hit /\ cached.val # <<>>
        THEN Outcome(cached.cs, PySlice(cached.val, 0, max_results),
                     0, TRUE, FALSE)
        ELSE IF Len(exact_matches) >= max_results
        THEN Outcome(CacheResult(cached.cs, cache_key, exact_results, t),
                     exact_results, Len(index), TRUE, TRUE)
        ELSE Outcome(CacheResult(cached.cs, cache_key, final_results, t),
                     final_results, Len(index), TRUE, TRUE)

\* ------------------------------------------------------------------------
\* search_sloka_sanskrit_fuzzy and the searches in one kanda
\* ------------------------------------------------------------------------

\* ThreadPoolExecutor(max_workers=4) / len(self.sanskrit_index) // 4
SkWorkers == 4

\* chunk_size = max(100, ...): a chunk holds several verses
SkMinChunk == 2

SearchSlokaSanskritFuzzy(cs, c, raw_query, threshold, max_results, t) ==
    LET query == Lower(raw_query)
        cache_key == GetCacheKey(query, "sanskrit", NoKanda, threshold)
        cached == GetCachedResult(cs, cache_key, t)
        index == SanskritIndex(c)
        exact_matches ==
            SelectSeq(index, LAMBDA item : Contains(item.sk, query)
                                           \/ Contains(item.mn, query))
        exact_results ==
            SortByRatioDesc(ExactResults(PySlice(exact_matches, 0, max_results)))
        chunk_size == Max(SkMinChunk, Len(index) \div SkWorkers)
        all_results ==
            SortByRatioDesc(CollectChunks(Chunks(index, chunk_size), query,
                                          threshold, "sloka_text"))
        final_results == PySlice(all_results, 0, max_results)
    IN  IF cached.hit /\ cached.val # <<>>
        THEN Outcome(cached.cs, PySlice(cached.val, 0, max_results),
                     0, TRUE, FALSE)
        ELSE IF Len(exact_matches) >= max_results
        THEN Outcome(CacheResult(cached.cs, cache_key, exact_results, t),
                     exact_results, Len(index), TRUE, TRUE)
        ELSE Outcome(CacheResult(cached.cs, cache_key, final_results, t),
                     final_results, Len(index), TRUE, TRUE)

\* the scoring loop of the searches in one kanda
RECURSIVE KandaResults(_, _, _, _)
KandaResults(items, query, threshold, search_field) ==
    IF items = <<>> THEN <<>>
    ELSE LET item  == Head(items)
             ratio == IF search_field = "translation"
                      THEN PartialRatio(item.tr, query)
                      ELSE PartialRatio(item.sk, query)
             rest  == KandaResults(Tail(items), query, threshold, search_field)
         IN  IF ratio > threshold
             THEN <<Result(item.id, ratio, "none")>> \o rest
             ELSE rest

SearchTranslationInKandaFuzzy_AllKandas(cs, c, kanda_number, raw_query, threshold, t) ==
    LET query == Lower(raw_query)
        cache_key == GetCacheKey(query, "translation_kanda", kanda_number,
                                 threshold)
        cached == GetCachedResult(cs, cache_key, t)
        kanda_items == TranslationIndex(c)
        results == SortByRatioDesc(
                       KandaResults(kanda_items, query, threshold, "translation"))
    IN  IF cached.hit /\ cached.val # <<>>
        THEN Outcome(cached.cs, cached.val, 0, TRUE, FALSE)
        ELSE Outcome(CacheResult(cached.cs, cache_key, results, t),
                     results, Len(kanda_items), TRUE, TRUE)

\* search_translation_in_kanda_fuzzy
SearchTranslationInKandaFuzzy(cs, c, kanda_number, raw_query, threshold, t) ==
    LET query == Lower(raw_query)
        cache_key == GetCacheKey(query, "translation_kanda", kanda_number,
                                 threshold)
        cached == GetCachedResult(cs, cache_key, t)
        kanda_items == SelectSeq(TranslationIndex(c),
                                 LAMBDA item : item.kanda = kanda_number)
        results == SortByRatioDesc(
                       KandaResults(kanda_items, query, threshold, "translation"))
    IN  IF cached.hit /\ cached.val # <<>>
        THEN Outcome(cached.cs, cached.val, 0, TRUE, FALSE)
        ELSE Outcome(CacheResult(cached.cs, cache_key, results, t),
                     results, Len(kanda_items), TRUE, TRUE)

SearchSlokaSanskritInKandaFuzzy(cs, c, kanda_number, raw_query, threshold, t) ==
    LET query == Lower(raw_query)
        cache_key == GetCacheKey(query, "sanskrit_kanda", kanda_number,
                                 threshold)
        cached == GetCachedResult(cs, cache_key, t)
        kanda_items == SelectSeq(SanskritIndex(c),
                                 LAMBDA item : item.kanda = kanda_number)
        results == SortByRatioDesc(
                       KandaResults(kanda_items, query, threshold, "sloka_text"))
    IN  IF cached.hit /\ cached.val # <<>>
        THEN Outcome(cached.cs, cached.val, 0, TRUE, FALSE)
        ELSE Outcome(CacheResult(cached.cs, cache_key, results, t),
                     results, Len(kanda_items), TRUE, TRUE)

\* ------------------------------------------------------------------------
\* fuzzy_search_slokas (GET /slokas/fuzzy-search)
\* ------------------------------------------------------------------------

\* total_pages = (total_results + page_size - 1) // page_size
TotalPages_Truncating(total_results, page_size) ==
    PyFloorDiv(total_results, page_size)

TotalPages(total_results, page_size) ==
    PyFloorDiv(total_results + page_size - 1, page_size)

\* page_results = all_results[start_idx:end_idx]
PageResults(all_results, page, page_size) ==
    LET start_idx == (page - 1) * page_size
        end_idx == start_idx + page_size
    IN  PySlice(all_results, start_idx, end_idx)

\* page_size = min(int(request.args.get("page_size", ...)), Config.MAX_PAGE_SIZE)
ClampPageSize(requested) == Min(requested, MAX_PAGE_SIZE)

NoPagination ==
    [page |-> 0, page_size |-> 0, total_results |-> 0, total_pages |-> 0,
     has_next |-> FALSE, has_prev |-> FALSE]

Response(cs, status, results, pagination) ==
    [cs |-> cs, status |-> status, results |-> results,
     pagination |-> pagination]

FuzzySearchSlokas(cs, c, raw_query, kanda_num, threshold, page, requested, t) ==
    LET query == Strip(raw_query)
        page_size == ClampPageSize(requested)
        max_total_results == page_size * ResultLimitFactor
        found == IF kanda_num = 0
                 THEN SearchTranslationFuzzy(cs, c, query, max_total_results, t)
                 ELSE SearchTranslationInKandaFuzzy(cs, c, kanda_num, query,
                                                    threshold, t)
        all_results == found.out
        total_results == Len(all_results)
        page_results == PageResults(all_results, page, page_size)
        total_pages == TotalPages(total_results, page_size)
    IN  IF query = <<>> THEN Response(cs, 400, <<>>, NoPagination)
        ELSE IF page < 1 THEN Response(cs, 400, <<>>, NoPagination)
        ELSE IF page_size = 0
        THEN \* ZeroDivisionError, re-raised as SearchError
             Response(found.cs, 500, <<>>, NoPagination)
        ELSE Response(found.cs, 200, page_results,
                      [page |-> page, page_size |-> page_size,
                       total_results |-> total_results,
                       total_pages |-> total_pages,
                       has_next |-> page < total_pages,
                       has_prev |-> page > 1])

\* ------------------------------------------------------------------------
\* Corpora
\* ------------------------------------------------------------------------

\* translation fields: no match, a fuzzy match, the word itself
TrFields == { Field(70, FALSE), Field(85, FALSE), Field(100, TRUE) }

Ascending == [i \in 1 .. NumVerses |-> i]
Descending == [i \in 1 .. NumVerses |-> NumVerses + 1 - i]

\* verse i has the identifier ids[i]; the first split verses are kanda 1,
\* the others kanda 2
Corpora(trs, sks, orders, splits) ==
    { [i \in 1 .. NumVerses |->
         [id |-> ids[i], kanda |-> IF i <= split THEN 1 ELSE 2,
          tr |-> f[i], sk |-> g[i][1], mn |-> g[i][2]]] :
      f \in [1 .. NumVerses -> trs], g \in [1 .. NumVerses -> sks],
      ids \in orders, split \in splits }

ColdCache ==
    [sc |-> <<>>, ts |-> << >>,
     st |-> [hits |-> 0, misses |-> 0, evictions |-> 0],
     max_size |-> cache_max_size, max_memory |-> cache_max_memory]

\* ------------------------------------------------------------------------
\* Calls of the service
\* ------------------------------------------------------------------------

NoSearch ==
    [op |-> "none", query |-> <<>>, kanda |-> NoKanda, threshold |-> 0,
     max_results |-> 0, at |-> 0, out |-> <<>>, scored |-> 0,
     read |-> FALSE, wrote |-> FALSE]

Returned(op, query, kanda, threshold, max_results, o) ==
    [op |-> op, query |-> query, kanda |-> kanda, threshold |-> threshold,
     max_results |-> max_results, at |-> now, out |-> o.out,
     scored |-> o.scored, read |-> o.read, wrote |-> o.wrote]

ServiceCall(r, o) ==
    /\ SetCache(o.cs)
    /\ ret' = r
    /\ prev' = ret
    /\ nops' = nops + 1
    /\ UNCHANGED <<corpus, cache_max_size, cache_max_memory, now, putLog,
                   useOrder, sweep,
                   cache_lock, pc, frame>>

SearchTranslation(query, max_results) ==
    LET o == SearchTranslationFuzzy(CacheState, corpus, query, max_results, now)
    IN  ServiceCall(Returned("translation", query, NoKanda, DefaultThreshold,
                             max_results, o), o)

SearchSanskrit(query, threshold, max_results) ==
    LET o == SearchSlokaSanskritFuzzy(CacheState, corpus, query, threshold,
                                      max_results, now)
    IN  ServiceCall(Returned("sanskrit", query, NoKanda, threshold,
                             max_results, o), o)

SearchTranslationInKanda(kanda_number, query, threshold) ==
    LET o == SearchTranslationInKandaFuzzy(CacheState, corpus, kanda_number,
                                           query, threshold, now)
    IN  ServiceCall(Returned("translation_kanda", query, kanda_number,
                             threshold, 0, o), o)

SearchSanskritInKanda(kanda_number, query, threshold) ==
    LET o == SearchSlokaSanskritInKandaFuzzy(CacheState, corpus, kanda_number,
                                             query, threshold, now)
    IN  ServiceCall(Returned("sanskrit_kanda", query, kanda_number,
                             threshold, 0, o), o)

\* the thresholds and kandas callers pass
Thresholds == {70, 90}
Kandas == {1, 2}

\* text and meaning of the verses where only translations are searched
PlainText == <<Field(70, FALSE), Field(70, FALSE)>>

InitService ==
    /\ EmptyCache
    /\ NoThreads
    /\ cache_max_size = SmallCacheSize
    /\ cache_max_memory = SmallCacheMemory
    /\ ret = NoSearch
    /\ prev = NoSearch
    /\ putLog = <<>>
    /\ useOrder = <<>>
    /\ sweep = <<>>

\* --- the translation search over all kandas, called with "q" or "Q" and
\* --- a limit of 1 or 2 results
Init ==
    /\ InitService
    /\ corpus \in Corpora(TrFields, {PlainText}, {Ascending, Descending},
                          {NumVerses})

Next ==
    \/ /\ nops < MaxOps
       /\ \E q \in { <<"q">>, <<"Q">> }, m \in {1, 2} : SearchTranslation(q, m)
    \/ Tick

Spec == Init /\ [][Next]_vars

\* --- every search of the service, called with "", " " or "q"
EntryQueries == { <<>>, <<" ">>, <<"q">> }

\* a verse that holds the word in translation and text, and one that is a
\* fuzzy match in translation and meaning
EntryVerses ==
    { [tr |-> Field(100, TRUE), sk |-> Field(100, TRUE), mn |-> Field(70, FALSE)],
      [tr |-> Field(85, FALSE), sk |-> Field(70, FALSE), mn |-> Field(85, FALSE)] }

InitEntry ==
    /\ InitService
    /\ corpus \in { [i \in 1 .. NumVerses |->
                       [id |-> i, kanda |-> IF i < NumVerses THEN 1 ELSE 2,
                        tr |-> f[i].tr, sk |-> f[i].sk, mn |-> f[i].mn]] :
                    f \in [1 .. NumVerses -> EntryVerses] }

NextEntry ==
    \/ /\ nops < MaxEntryOps
       /\ \E q \in EntryQueries, m \in {2, NumVerses + 1} :
            SearchTranslation(q, m)
    \/ /\ nops < MaxEntryOps
       /\ \E q \in EntryQueries, th \in Thresholds, m \in {2, NumVerses + 1} :
            SearchSanskrit(q, th, m)
    \/ /\ nops < MaxEntryOps
       /\ \E k \in Kandas, q \in EntryQueries, th \in Thresholds :
            SearchTranslationInKanda(k, q, th)
    \/ /\ nops < MaxEntryOps
       /\ \E k \in Kandas, q \in EntryQueries, th \in Thresholds :
            SearchSanskritInKanda(k, q, th)
    \/ Tick

SpecEntry == InitEntry /\ [][NextEntry]_vars

\* ------------------------------------------------------------------------
\* Requests to GET /slokas/fuzzy-search
\* ------------------------------------------------------------------------

NoRequest ==
    [op |-> "none", query |-> <<>>, kanda |-> NoKanda, threshold |-> 0,
     page |-> 0, requested |-> 0, at |-> 0, status |-> 0, results |-> <<>>,
     pagination |-> NoPagination]

NoSweep ==
    [active |-> FALSE, query |-> <<>>, kanda |-> NoKanda, threshold |-> 0,
     requested |-> 0, next |-> 0, acc |-> <<>>, done |-> FALSE]

\* a client pages through one query with a fixed page_size: page 1 starts
\* the collection, the next page in order extends it
Collect(query, kanda_num, threshold, page, requested, resp) ==
    IF resp.status # 200 THEN sweep
    ELSE IF page = 1
    THEN [active |-> TRUE, query |-> query, kanda |-> kanda_num,
          threshold |-> threshold, requested |-> requested, next |-> 2,
          acc |-> resp.results, done |-> 1 >= resp.pagination.total_pages]
    ELSE IF /\ sweep.active /\ ~sweep.done /\ sweep.query = query
            /\ sweep.kanda = kanda_num /\ sweep.threshold = threshold
            /\ sweep.requested = requested /\ sweep.next = page
    THEN [sweep EXCEPT !.next = page + 1, !.acc = @ \o resp.results,
                       !.done = page >= resp.pagination.total_pages]
    ELSE sweep

FuzzySearchRequest(query, kanda_num, threshold, page, requested) ==
    LET resp == FuzzySearchSlokas(CacheState, corpus, query, kanda_num,
                                  threshold, page, requested, now)
    IN  /\ SetCache(resp.cs)
        /\ ret' = [op |-> "fuzzy_search", query |-> query, kanda |-> kanda_num,
                   threshold |-> threshold, page |-> page,
                   requested |-> requested, at |-> now,
                   status |-> resp.status, results |-> resp.results,
                   pagination |-> resp.pagination]
        /\ sweep' = Collect(query, kanda_num, threshold, page, requested, resp)
        /\ nops' = nops + 1
        /\ UNCHANGED <<corpus, cache_max_size, cache_max_memory, now, prev,
                       putLog, useOrder,
                   cache_lock, pc, frame>>

\* translations that match at threshold 70 only, or at 70 and 90
HttpFields == { Field(85, FALSE), Field(100, TRUE) }

InitRequests ==
    /\ EmptyCache
    /\ NoThreads
    /\ cache_max_size = SmallCacheSize
    /\ cache_max_memory = SmallCacheMemory
    /\ ret = NoRequest
    /\ prev = NoRequest
    /\ putLog = <<>>
    /\ useOrder = <<>>
    /\ sweep = NoSweep

\* --- single requests with every kind of parameter
InitHttp ==
    /\ InitRequests
    /\ corpus \in Corpora(HttpFields, {PlainText}, {Ascending}, {NumVerses})

NextHttp ==
    \/ /\ nops < MaxHttpOps
       /\ \E q \in { <<>>, <<"q">> }, k \in {0, 1}, th \in Thresholds,
             p \in 0 .. 3, s \in {0 - 1, 0, 1, 2, 3} :
            FuzzySearchRequest(q, k, th, p, s)
    \/ Tick

SpecHttp == InitHttp /\ [][NextHttp]_vars

\* --- a client paging through the results of "q"
InitPaging ==
    /\ InitRequests
    /\ corpus \in Corpora(HttpFields, {PlainText}, {Ascending}, {NumVerses})

NextPaging ==
    \/ /\ nops < MaxPagingOps
       /\ \E k \in {0, 1}, p \in 1 .. 3, s \in {1, 2} :
            FuzzySearchRequest(<<"q">>, k, DefaultThreshold, p, s)
    \/ Tick

SpecPaging == InitPaging /\ [][NextPaging]_vars

\* ------------------------------------------------------------------------
\* Request arguments as the client sends them (strings)
\* ------------------------------------------------------------------------

\* number of requests made in one behaviour of the argument specification
MaxArgsOps == 1

\* the value of a decimal digit, -1 for any other character
DigitValue(ch) ==
    CASE ch = "0" -> 0 [] ch = "1" -> 1 [] ch = "2" -> 2 [] ch = "3" -> 3
      [] ch = "4" -> 4 [] ch = "5" -> 5 [] ch = "6" -> 6 [] ch = "7" -> 7
      [] ch = "8" -> 8 [] ch = "9" -> 9 [] OTHER -> 0 - 1

\* the digits of s read from the left onto acc; -1 when s has a non-digit
RECURSIVE ParseDigits(_, _)
ParseDigits(s, acc) ==
    IF s = <<>> THEN acc
    ELSE IF DigitValue(Head(s)) < 0 THEN 0 - 1
    ELSE ParseDigits(Tail(s), acc * 10 + DigitValue(Head(s)))

\* int(s): ok is FALSE where int raises ValueError
ParseInt(s) ==
    LET negative == s # <<>> /\ Head(s) = "-"
        digits   == IF negative THEN Tail(s) ELSE s
        value    == ParseDigits(digits, 0)
    IN  IF digits = <<>> \/ value < 0 THEN [ok |-> FALSE, val |-> 0]
        ELSE [ok |-> TRUE, val |-> IF negative THEN 0 - value ELSE value]

\* fuzzy_search_slokas from the arguments of the query string: threshold,
\* page and page_size are converted first, inside the try block whose
\* handler raises SearchError (status 500); kanda is converted in a try
\* block of its own
FuzzySearchSlokasArgs(cs, c, raw_query, kanda, threshold, page, page_size, t) ==
    LET query     == Strip(raw_query)
        th        == ParseInt(threshold)
        p         == ParseInt(page)
        s         == ParseInt(page_size)
        kanda_num == IF kanda = <<>> THEN [ok |-> TRUE, val |-> 0]
                     ELSE ParseInt(kanda)
    IN  IF query = <<>> THEN Response(cs, 400, <<>>, NoPagination)
        ELSE IF ~th.ok \/ ~p.ok \/ ~s.ok
        THEN Response(cs, 500, <<>>, NoPagination)
        ELSE IF ~kanda_num.ok THEN Response(cs, 400, <<>>, NoPagination)
        ELSE FuzzySearchSlokas(cs, c, raw_query, kanda_num.val, th.val, p.val,
                               s.val, t)

\* the cache lookups made so far: every executed search makes one
Lookups(st) == st.hits + st.misses

FuzzySearchArgsRequest(query, kanda, threshold, page, page_size) ==
    LET resp == FuzzySearchSlokasArgs(CacheState, corpus, query, kanda,
                                      threshold, page, page_size, now)
    IN  /\ SetCache(resp.cs)
        /\ ret' = [op |-> "fuzzy_search_args", query |-> query,
                   kanda |-> kanda, threshold |-> threshold, page |-> page,
                   page_size |-> page_size, at |-> now,
                   status |-> resp.status, results |-> resp.results,
                   lookups |-> Lookups(resp.cs.st) - Lookups(cache_stats)]
        /\ nops' = nops + 1
        /\ UNCHANGED <<corpus, cache_max_size, cache_max_memory, now, prev,
                       putLog, useOrder, sweep,
                   cache_lock, pc, frame>>

\* argument strings: integers, a negative integer, a word, nothing
KandaArgs == { <<>>, <<"0">>, <<"1">>, <<"x">> }
ThresholdArgs == { <<"7", "0">>, <<"7", "x">> }
PageArgs == { <<"0">>, <<"1">>, <<"2">>, <<"-", "1">>, <<"x">>, <<>> }
PageSizeArgs == { <<"1">>, <<"2">>, <<"1", "0">>, <<"x">> }

NoArgsRequest ==
    [op |-> "none", query |-> <<>>, kanda |-> <<>>, threshold |-> <<>>,
     page |-> <<>>, page_size |-> <<>>, at |-> 0, status |-> 0,
     results |-> <<>>, lookups |-> 0]

InitArgs ==
    /\ EmptyCache
    /\ NoThreads
    /\ cache_max_size = SmallCacheSize
    /\ cache_max_memory = SmallCacheMemory
    /\ ret = NoArgsRequest
    /\ prev = NoArgsRequest
    /\ putLog = <<>>
    /\ useOrder = <<>>
    /\ sweep = NoSweep
    /\ corpus \in Corpora(HttpFields, {PlainText}, {Ascending}, {NumVerses})

NextArgs ==
    \/ /\ nops < MaxArgsOps
       /\ \E q \in { <<>>, <<"q">> }, k \in KandaArgs, th \in ThresholdArgs,
             p \in PageArgs, s \in PageSizeArgs :
            FuzzySearchArgsRequest(q, k, th, p, s)
    \/ Tick

SpecArgs == InitArgs /\ [][NextArgs]_vars

\* ------------------------------------------------------------------------
\* Searches in one kanda, for kandas of the corpus and for others
\* ------------------------------------------------------------------------

\* number of calls made in one behaviour of the in-kanda searches
MaxScopeOps == 2

\* a kanda number that no verse of the corpus carries
UnknownKanda == 3

InitScope ==
    /\ InitService
    /\ corpus \in { [i \in 1 .. NumVerses |->
                       [id |-> i, kanda |-> IF i < NumVerses THEN 1 ELSE 2,
                        tr |-> f[i].tr, sk |-> f[i].sk, mn |-> f[i].mn]] :
                    f \in [1 .. NumVerses -> EntryVerses] }

NextScope ==
    \/ /\ nops < MaxScopeOps
       /\ \E k \in {1, UnknownKanda}, q \in { <<>>, <<"q">> }, th \in Thresholds :
            SearchTranslationInKanda(k, q, th)
    \/ /\ nops < MaxScopeOps
       /\ \E k \in {1, UnknownKanda}, q \in { <<>>, <<"q">> }, th \in Thresholds :
            SearchSanskritInKanda(k, q, th)
    \/ Tick

SpecScope == InitScope /\ [][NextScope]_vars

\* ------------------------------------------------------------------------
\* search_stream (a generator) and GET /slokas/fuzzy-search-stream
\* ------------------------------------------------------------------------

\* max_results=1000 default of the searches over all kandas
DefaultMaxResults == 3

\* the generator of search_stream before its first step: it returns at once
\* for an empty query, range() raises for a step of 0 (caught and logged by
\* the generator), and the loop is empty for a negative step
NewSearchStream(raw_query, batch_size) ==
    [i |-> 0, batch_results |-> <<>>,
     phase |-> IF Strip(Lower(raw_query)) = <<>> THEN "end"
               ELSE IF batch_size = 0 THEN "end"
               ELSE IF batch_size < 0 THEN "tail"
               ELSE "loop"]

\* what one resumption of the generator gives: its state at the next yield
\* with the yielded batch, or stop at its end
Yielded(g, batch) == [g |-> g, batch |-> batch, stop |-> FALSE]
Stopped(g) == [g |-> [g EXCEPT !.phase = "end"], batch |-> <<>>, stop |-> TRUE]

RECURSIVE SearchStreamNext_DropRest(_, _, _, _, _, _)
SearchStreamNext_DropRest(c, raw_query, search_type, threshold, batch_size, g) ==
    LET query == Strip(Lower(raw_query))
        index == IF search_type = "translation"
                 THEN TranslationIndex(c) ELSE SanskritIndex(c)
        search_field == IF search_type = "translation"
                        THEN "translation" ELSE "sloka_text"
        batch == PySlice(index, g.i, g.i + batch_size)
        chunk_results ==
            SortByRatioDesc(ParallelSearchChunk(batch, query, threshold,
                                                search_field))
        acc == g.batch_results \o chunk_results
        sorted == SortByRatioDesc(acc)
        yield_count == Min(batch_size, Len(sorted))
    IN  IF g.phase = "end" THEN Stopped(g)
        ELSE IF g.phase = "tail"
        THEN IF g.batch_results # <<>>
             THEN Yielded([g EXCEPT !.phase = "end"],
                          SortByRatioDesc(g.batch_results))
             ELSE Stopped(g)
        ELSE IF g.i >= Len(index)
        THEN SearchStreamNext_DropRest(c, raw_query, search_type, threshold,
                                       batch_size, [g EXCEPT !.phase = "tail"])
        ELSE IF (Len(acc) >= batch_size \/ g.i + batch_size >= Len(index))
                /\ acc # <<>>
        THEN Yielded([i |-> g.i + batch_size, batch_results |-> <<>>,
                      phase |-> "loop"],
                     PySlice(sorted, 0, yield_count))
        ELSE SearchStreamNext_DropRest(c, raw_query, search_type, threshold,
                                       batch_size,
                                       [i |-> g.i + batch_size,
                                        batch_results |-> acc,
                                        phase |-> "loop"])

\* search_stream, resumed in state g and run up to the next yield
RECURSIVE SearchStreamNext(_, _, _, _, _, _)
SearchStreamNext(c, raw_query, search_type, threshold, batch_size, g) ==
    LET query == Strip(Lower(raw_query))
        index == IF search_type = "translation"
                 THEN TranslationIndex(c) ELSE SanskritIndex(c)
        search_field == IF search_type = "translation"
                        THEN "translation" ELSE "sloka_text"
        batch == PySlice(index, g.i, g.i + batch_size)
        chunk_results ==
            SortByRatioDesc(ParallelSearchChunk(batch, query, threshold,
                                                search_field))
        acc == g.batch_results \o chunk_results
        sorted == SortByRatioDesc(acc)
        yield_count == Min(batch_size, Len(sorted))
    IN  IF g.phase = "end" THEN Stopped(g)
        ELSE IF g.phase = "tail"
        THEN IF g.batch_results # <<>>
             THEN Yielded([g EXCEPT !.phase = "end"],
                          SortByRatioDesc(g.batch_results))
             ELSE Stopped(g)
        ELSE IF g.i >= Len(index)
        THEN SearchStreamNext(c, raw_query, search_type, threshold,
                              batch_size, [g EXCEPT !.phase = "tail"])
        ELSE IF (Len(acc) >= batch_size \/ g.i + batch_size >= Len(index))
                /\ acc # <<>>
        THEN Yielded([i |-> g.i + batch_size,
                      batch_results |-> PySlice(sorted, yield_count, Len(sorted)),
                      phase |-> "loop"],
                     PySlice(sorted, 0, yield_count))
        ELSE SearchStreamNext(c, raw_query, search_type, threshold, batch_size,
                              [i |-> g.i + batch_size, batch_results |-> acc,
                               phase |-> "loop"])

\* every batch of search_stream, in the order of the yields
RECURSIVE SearchStreamFrom(_, _, _, _, _, _)
SearchStreamFrom(c, raw_query, search_type, threshold, batch_size, g) ==
    LET r == SearchStreamNext(c, raw_query, search_type, threshold,
                              batch_size, g)
    IN  IF r.stop THEN <<>>
        ELSE <<r.batch>> \o SearchStreamFrom(c, raw_query, search_type,
                                             threshold, batch_size, r.g)

SearchStream(c, raw_query, search_type, threshold, batch_size) ==
    SearchStreamFrom(c, raw_query, search_type, threshold, batch_size,
                     NewSearchStream(raw_query, batch_size))

\* the searches in one kanda have no exception handler: the scorer raising
\* on an item of the kanda ends the call with the exception, after the
\* cache lookup
KandaSearchRaises(cs, c, kanda_number, raw_query, threshold, search_type, t) ==
    LET query == Lower(raw_query)
        cache_key == GetCacheKey(query,
                                 IF search_type = "translation"
                                 THEN "translation_kanda" ELSE "sanskrit_kanda",
                                 kanda_number, threshold)
        cached == GetCachedResult(cs, cache_key, t)
    IN  /\ ~(cached.hit /\ cached.val # <<>>)
        /\ \E i \in DOMAIN c :
              /\ c[i].kanda = kanda_number
              /\ IF search_type = "translation"
                 THEN Raises(c[i].tr) ELSE Raises(c[i].sk)

\* an event of the response: f'data: {json.dumps(...)}\n\n'
Event(type, results, batch_number, count) ==
    [type |-> type, results |-> results, batch_number |-> batch_number,
     count |-> count]

\* the generator generate_results() of a request, before its first step
NewGenerateResults(query, search_type, threshold, batch_size, kanda_num) ==
    [query |-> query, search_type |-> search_type, threshold |-> threshold,
     batch_size |-> batch_size, kanda_num |-> kanda_num,
     stream |-> NewSearchStream(query, batch_size),
     batch_count |-> 0, total_results |-> 0, all_results |-> <<>>, i |-> 0]

NoStream ==
    [op |-> "none", query |-> <<>>, kanda |-> NoKanda, threshold |-> 0,
     batch_size |-> 0, search_type |-> "translation", at |-> 0, status |-> 0,
     stopped |-> FALSE, events |-> <<>>]

\* fuzzy_search_slokas_stream: the request is checked and answered either
\* with an error (400) or with the generator as the body of a 200 response
StreamRequest(raw_query, kanda_num, threshold, batch_size, search_type) ==
    LET query == Strip(raw_query)
        rejected == query = <<>>
                    \/ search_type \notin {"translation", "sanskrit"}
    IN  /\ pc.gen = "idle"
        /\ ret' = [op |-> "stream", query |-> query, kanda |-> kanda_num,
                   threshold |-> threshold, batch_size |-> batch_size,
                   search_type |-> search_type, at |-> now,
                   status |-> IF rejected THEN 400 ELSE 200,
                   stopped |-> FALSE, events |-> <<>>]
        /\ pc' = [pc EXCEPT !.gen = IF rejected THEN "closed" ELSE "start"]
        /\ frame' = [frame EXCEPT !.gen =
                        NewGenerateResults(query, search_type, threshold,
                                           batch_size, kanda_num)]
        /\ nops' = nops + 1
        /\ UNCHANGED <<corpus, search_cache, cache_timestamps, cache_stats,
                       cache_max_size, cache_max_memory, now, prev, putLog,
                       useOrder, sweep, cache_lock>>

\* the generator yields ev and goes on at position at with locals f
Emit(ev, at, f) ==
    /\ ret' = [ret EXCEPT !.events = Append(@, ev)]
    /\ pc' = [pc EXCEPT !.gen = at]
    /\ frame' = [frame EXCEPT !.gen = f]

\* yield the "start" event
EmitStart ==
    /\ pc.gen = "start"
    /\ Emit(Event("start", <<>>, 0, 0),
            IF frame.gen.kanda_num = 0 THEN "streaming" ELSE "fallback",
            frame.gen)
    /\ UNCHANGED <<search_cache, cache_timestamps, cache_stats>>

\* all kandas: for batch_results in search_stream(...): yield a "batch"
\* event; after the loop yield the "complete" event
StreamBatch ==
    LET f == frame.gen
        r == SearchStreamNext(corpus, f.query, f.search_type, f.threshold,
                              f.batch_size, f.stream)
        batch_count == f.batch_count + 1
        total_results == f.total_results + Len(r.batch)
    IN  /\ pc.gen = "streaming"
        /\ IF r.stop
           THEN Emit(Event("complete", <<>>, f.batch_count, f.total_results),
                     "ended", [f EXCEPT !.stream = r.g])
           ELSE Emit(Event("batch", r.batch, batch_count, total_results),
                     "streaming",
                     [f EXCEPT !.stream = r.g, !.batch_count = batch_count,
                               !.total_results = total_results])
        /\ UNCHANGED <<search_cache, cache_timestamps, cache_stats>>

\* one kanda: the search in the kanda, then the "total" event; an exception
\* of the search is answered with the "error" event
FallbackSearch ==
    LET f == frame.gen
        found == IF f.search_type = "translation"
                 THEN SearchTranslationInKandaFuzzy(CacheState, corpus,
                          f.kanda_num, f.query, f.threshold, now)
                 ELSE SearchSlokaSanskritInKandaFuzzy(CacheState, corpus,
                          f.kanda_num, f.query, f.threshold, now)
        looked == GetCachedResult(CacheState,
                      GetCacheKey(Lower(f.query),
                                  IF f.search_type = "translation"
                                  THEN "translation_kanda" ELSE "sanskrit_kanda",
                                  f.kanda_num, f.threshold), now)
    IN  /\ pc.gen = "fallback"
        /\ IF KandaSearchRaises(CacheState, corpus, f.kanda_num, f.query,
                                f.threshold, f.search_type, now)
           THEN /\ SetCache(looked.cs)
                /\ Emit(Event("error", <<>>, 0, 0), "ended", f)
           ELSE /\ SetCache(found.cs)
                /\ Emit(Event("total", <<>>, 0, Len(found.out)), "batches",
                        [f EXCEPT !.all_results = found.out])

FallbackBatch_SameNumber ==
    LET f == frame.gen
        batch == PySlice(f.all_results, f.i, f.i + f.batch_size)
    IN  /\ pc.gen = "batches"
        /\ IF f.batch_size = 0
           THEN Emit(Event("error", <<>>, 0, 0), "ended", f)
           ELSE IF f.batch_size > 0 /\ f.i < Len(f.all_results)
           THEN Emit(Event("batch", batch, 1, Len(batch)), "batches",
                     [f EXCEPT !.batch_count = 1, !.i = f.i + f.batch_size])
           ELSE Emit(Event("complete", <<>>, f.batch_count,
                           Len(f.all_results)), "ended", f)
        /\ UNCHANGED <<search_cache, cache_timestamps, cache_stats>>

\* one kanda: for i in range(0, len(all_results), batch_size): yield a
\* "batch" event; after the loop yield the "complete" event; range() raises
\* for a step of 0
FallbackBatch ==
    LET f == frame.gen
        batch == PySlice(f.all_results, f.i, f.i + f.batch_size)
        batch_count == f.batch_count + 1
    IN  /\ pc.gen = "batches"
        /\ IF f.batch_size = 0
           THEN Emit(Event("error", <<>>, 0, 0), "ended", f)
           ELSE IF f.batch_size > 0 /\ f.i < Len(f.all_results)
           THEN Emit(Event("batch", batch, batch_count, Len(batch)), "batches",
                     [f EXCEPT !.batch_count = batch_count,
                               !.i = f.i + f.batch_size])
           ELSE Emit(Event("complete", <<>>, f.batch_count,
                           Len(f.all_results)), "ended", f)
        /\ UNCHANGED <<search_cache, cache_timestamps, cache_stats>>

\* the generator is resumed after its last yield and returns
StopIteration ==
    /\ pc.gen = "ended"
    /\ pc' = [pc EXCEPT !.gen = "closed"]
    /\ ret' = [ret EXCEPT !.stopped = TRUE]
    /\ UNCHANGED <<search_cache, cache_timestamps, cache_stats, frame>>

\* the server takes the next item of the response body: the generator runs
\* the step it is at
StreamNext(step) ==
    /\ step
    /\ UNCHANGED <<corpus, cache_max_size, cache_max_memory, now, prev, putLog,
                   useOrder, sweep, nops, cache_lock>>

\* the clock while a response is under way
StreamTick ==
    /\ now < MaxTime
    /\ now' = now + 1
    /\ UNCHANGED <<corpus, search_cache, cache_timestamps, cache_stats,
                   cache_max_size, cache_max_memory, ret, prev, putLog,
                   useOrder, sweep, nops, cache_lock, pc, frame>>

\* verses: the word in translation and text, a fuzzy match in translation
\* and meaning, and a verse the scorer raises on
StreamVerses ==
    EntryVerses \cup
    { [tr |-> Unscorable, sk |-> Unscorable, mn |-> Field(70, FALSE)] }

BatchSizes == {0, 1, 2}
SearchTypes == {"translation", "sanskrit", "other"}

InitStream ==
    /\ EmptyCache
    /\ cache_max_size = SmallCacheSize
    /\ cache_max_memory = SmallCacheMemory
    /\ ret = NoStream
    /\ prev = NoStream
    /\ putLog = <<>>
    /\ useOrder = <<>>
    /\ sweep = NoSweep
    /\ pc = [gen |-> "idle"]
    /\ frame = [gen |-> NewGenerateResults(<<>>, "translation", 0, 0, 0)]
    /\ corpus \in { [i \in 1 .. NumVerses |->
                       [id |-> i, kanda |-> IF i < NumVerses THEN 1 ELSE 2,
                        tr |-> f[i].tr, sk |-> f[i].sk, mn |-> f[i].mn]] :
                    f \in [1 .. NumVerses -> StreamVerses] }

NextStream ==
    \/ \E q \in { <<>>, <<"q">> }, k \in {0, 1}, th \in Thresholds,
          bs \in BatchSizes, st \in SearchTypes :
         StreamRequest(q, k, th, bs, st)
    \/ StreamNext(EmitStart)
    \/ StreamNext(StreamBatch)
    \/ StreamNext(FallbackSearch)
    \/ StreamNext(FallbackBatch)
    \/ StreamNext(StopIteration)
    \/ StreamTick

SpecStream == InitStream /\ [][NextStream]_vars

\* ------------------------------------------------------------------------
\* The parallel scoring of one query, step by step: the query thread
\* submits one task per chunk to the worker pool and collects the futures
\* ------------------------------------------------------------------------

\* chunk_size of search_translation_fuzzy and search_sloka_sanskrit_fuzzy
ChunkSize(kind, n) ==
    IF kind = "translation"
    THEN Max(TrMinChunk,
             n \div Min(TrMaxWorkers, Max(TrMinWorkers, n \div VersesPerWorker)))
    ELSE Max(SkMinChunk, n \div SkWorkers)

\* a future of the pool: pending, done (with the results of its chunk) or
\* hung (its task never finishes)
Future(state, results) == [state |-> state, results |-> results]

NoQuery ==
    [kind |-> "none", query |-> <<>>, threshold |-> 0, max_results |-> 0,
     cache_key |-> GetCacheKey(<<>>, "none", NoKanda, 0),
     chunks |-> <<>>, futures |-> <<>>, pos |-> 1, all_results |-> <<>>,
     order |-> <<>>, timed_out |-> {}]

NoRun ==
    [op |-> "none", query |-> <<>>, threshold |-> 0, max_results |-> 0,
     at |-> 0, out |-> <<>>, returned |-> FALSE, path |-> "none",
     order |-> <<>>, timed_out |-> {}]

\* the call returns out
ReturnRun(op, raw_query, threshold, max_results, out, path, order, timed_out) ==
    /\ ret' = [op |-> op, query |-> raw_query, threshold |-> threshold,
               max_results |-> max_results, at |-> now, out |-> out,
               returned |-> TRUE, path |-> path, order |-> order,
               timed_out |-> timed_out]
    /\ pc' = [pc EXCEPT !.main = "returned"]

\* search_translation_fuzzy(raw_query, max_results) or
\* search_sloka_sanskrit_fuzzy(raw_query, threshold, max_results) up to the
\* submission of the chunks: the empty query, the cache hit and the exact
\* matches return at once
StartSearch(kind, raw_query, threshold, max_results) ==
    LET query == IF kind = "translation"
                 THEN Strip(Lower(raw_query)) ELSE Lower(raw_query)
        used == IF kind = "translation" THEN DefaultThreshold ELSE threshold
        cache_key == GetCacheKey(query, kind, NoKanda, used)
        cached == GetCachedResult(CacheState, cache_key, now)
        index == IF kind = "translation"
                 THEN TranslationIndex(corpus) ELSE SanskritIndex(corpus)
        exact_matches ==
            SelectSeq(index,
                      LAMBDA item : IF kind = "translation"
                                    THEN Contains(item.tr, query)
                                    ELSE Contains(item.sk, query)
                                         \/ Contains(item.mn, query))
        exact_results ==
            SortByRatioDesc(ExactResults(PySlice(exact_matches, 0, max_results)))
        chunks == Chunks(index, ChunkSize(kind, Len(index)))
    IN  /\ pc.main = "idle"
        /\ IF kind = "translation" /\ query = <<>>
           THEN /\ ReturnRun(kind, raw_query, used, max_results, <<>>, "empty",
                             <<>>, {})
                /\ UNCHANGED <<search_cache, cache_timestamps, cache_stats,
                               frame>>
           ELSE IF cached.hit /\ cached.val # <<>>
           THEN /\ ReturnRun(kind, raw_query, used, max_results,
                             PySlice(cached.val, 0, max_results), "cached",
                             <<>>, {})
                /\ SetCache(cached.cs)
                /\ UNCHANGED frame
           ELSE IF Len(exact_matches) >= max_results
           THEN /\ ReturnRun(kind, raw_query, used, max_results, exact_results,
                             "exact", <<>>, {})
                /\ SetCache(CacheResult(cached.cs, cache_key, exact_results,
                                        now))
                /\ UNCHANGED frame
           ELSE /\ SetCache(cached.cs)
                /\ ret' = [NoRun EXCEPT !.op = kind, !.query = raw_query,
                                        !.threshold = used,
                                        !.max_results = max_results,
                                        !.at = now, !.path = "parallel"]
                /\ pc' = [pc EXCEPT !.main = "collect"]
                /\ frame' = [frame EXCEPT !.main =
                     [NoQuery EXCEPT
                        !.kind = kind, !.query = query, !.threshold = used,
                        !.max_results = max_results, !.cache_key = cache_key,
                        !.chunks = chunks,
                        !.futures = [j \in DOMAIN chunks |->
                                        Future("pending", <<>>)]]]
        /\ nops' = nops + 1
        /\ UNCHANGED <<corpus, cache_max_size, cache_max_memory, now, prev,
                       putLog, useOrder, sweep, cache_lock>>

\* the steps of the workers and of the collecting loop leave the rest alone
PoolStep(f) ==
    /\ frame' = [frame EXCEPT !.main = f]
    /\ UNCHANGED <<corpus, search_cache, cache_timestamps, cache_stats,
                   cache_max_size, cache_max_memory, now, ret, prev, putLog,
                   useOrder, sweep, nops, cache_lock, pc>>

\* a worker thread finishes the task of chunk j
WorkerCompletes(j) ==
    LET f == frame.main
        search_field == IF f.kind = "translation"
                        THEN "translation" ELSE "sloka_text"
    IN  /\ pc.main = "collect"
        /\ j \in DOMAIN f.futures
        /\ f.futures[j].state = "pending"
        /\ PoolStep([f EXCEPT
              !.futures[j] =
                  Future("done", ParallelSearchChunk(f.chunks[j], f.query,
                                                     f.threshold, search_field)),
              !.order = Append(@, j)])

\* the task of chunk j never finishes
WorkerHangs(j) ==
    LET f == frame.main
    IN  /\ pc.main = "collect"
        /\ j \in DOMAIN f.futures
        /\ f.futures[j].state = "pending"
        /\ PoolStep([f EXCEPT !.futures[j] = Future("hung", <<>>)])

NextFuture_AsCompleted(f) ==
    IF f.pos <= Len(f.order) THEN f.order[f.pos] ELSE f.pos

\* for future in futures: the futures are taken in the order of submission
NextFuture(f) == f.pos

\* chunk_results = future.result(...); all_results.extend(chunk_results)
CollectResult ==
    LET f == frame.main
        j == NextFuture(f)
    IN  /\ pc.main = "collect"
        /\ f.pos <= Len(f.futures)
        /\ f.futures[j].state = "done"
        /\ PoolStep([f EXCEPT !.all_results = @ \o f.futures[j].results,
                              !.pos = @ + 1])

\* future.result(timeout=30) raises TimeoutError, which is logged: only the
\* translation search passes a timeout
CollectTimeout ==
    LET f == frame.main
        j == NextFuture(f)
    IN  /\ pc.main = "collect"
        /\ f.kind = "translation"
        /\ f.pos <= Len(f.futures)
        /\ f.futures[j].state # "done"
        /\ PoolStep([f EXCEPT !.timed_out = @ \cup {j}, !.pos = @ + 1])

\* all_results.sort(...); final_results = all_results[:max_results];
\* self._cache_result(cache_key, final_results); return final_results
FinishSearch ==
    LET f == frame.main
        final_results == PySlice(SortByRatioDesc(f.all_results), 0,
                                 f.max_results)
    IN  /\ pc.main = "collect"
        /\ f.pos > Len(f.futures)
        /\ ReturnRun(ret.op, ret.query, ret.threshold, ret.max_results,
                     final_results, "parallel", f.order, f.timed_out)
        /\ SetCache(CacheResult(CacheState, f.cache_key, final_results, now))
        /\ UNCHANGED <<corpus, cache_max_size, cache_max_memory, now, prev,
                       putLog, useOrder, sweep, nops, cache_lock, frame>>

\* the chunks of the model
ChunkIds == 1 .. NumVerses

InitWorkers ==
    /\ EmptyCache
    /\ cache_max_size = SmallCacheSize
    /\ cache_max_memory = SmallCacheMemory
    /\ ret = NoRun
    /\ prev = NoRun
    /\ putLog = <<>>
    /\ useOrder = <<>>
    /\ sweep = NoSweep
    /\ pc = [main |-> "idle"]
    /\ frame = [main |-> NoQuery]
    /\ corpus \in { [i \in 1 .. NumVerses |->
                       [id |-> i, kanda |-> 1,
                        tr |-> f[i].tr, sk |-> f[i].sk, mn |-> f[i].mn]] :
                    f \in [1 .. NumVerses -> StreamVerses] }

NextWorkers ==
    \/ \E q \in { <<>>, <<"q">> }, m \in {2, NumVerses + 1} :
         StartSearch("translation", q, DefaultThreshold, m)
    \/ \E th \in Thresholds, m \in {2, NumVerses + 1} :
         StartSearch("sanskrit", <<"q">>, th, m)
    \/ \E j \in ChunkIds : WorkerCompletes(j)
    \/ \E j \in ChunkIds : WorkerHangs(j)
    \/ CollectResult
    \/ CollectTimeout
    \/ FinishSearch

SpecWorkers == InitWorkers /\ [][NextWorkers]_vars

\* the scheduler runs every thread that can take a step: a task that does
\* not hang finishes, a result that is ready is collected, a timeout that is
\* armed expires
FairWorkers ==
    /\ \A j \in ChunkIds : WF_vars(WorkerCompletes(j))
    /\ WF_vars(CollectResult)
    /\ WF_vars(CollectTimeout)
    /\ WF_vars(FinishSearch)

SpecWorkersFair == SpecWorkers /\ FairWorkers

\* ------------------------------------------------------------------------
\* Cache calls of concurrent query threads, step by step: every cache
\* method runs "with self._cache_lock"
\* ------------------------------------------------------------------------

\* number of cache calls made in one behaviour of the lock specification
MaxLockOps == 3

\* number of query threads
NumThreads == 2

Threads == 1 .. NumThreads

\* round(hits / total_requests * 100, 2), in hundredths of a percent
HitRate(st) ==
    LET total_requests == st.hits + st.misses
    IN  IF total_requests > 0
        THEN (2 * st.hits * 10000 + total_requests) \div (2 * total_requests)
        ELSE 0

\* the dictionary get_cache_stats returns
GetCacheStats(cs) ==
    [cache_size |-> Len(cs.sc), hit_rate |-> HitRate(cs.st),
     total_hits |-> cs.st.hits, total_misses |-> cs.st.misses,
     total_evictions |-> cs.st.evictions]

\* a cache method run from start to end on the cache cs at time t: the
\* cache after it and what it returns
CacheCall(cs, op, key, val, t) ==
    IF op = "get"
    THEN LET g == GetCachedResult(cs, key, t)
         IN  [cs |-> g.cs, result |-> [hit |-> g.hit, val |-> g.val]]
    ELSE IF op = "put"
    THEN [cs |-> CacheResult(cs, key, val, t),
          result |-> [hit |-> FALSE, val |-> <<>>]]
    ELSE [cs |-> cs, result |-> GetCacheStats(cs)]

NoCacheCall ==
    [op |-> "none", key |-> CacheKeyOf(0), val |-> <<>>, snap |-> <<>>,
     result |-> <<>>]

NoLockedCall ==
    [op |-> "none", thread |-> 0, key |-> CacheKeyOf(0), result |-> <<>>]

\* thread th calls a cache method
Call(th, op, key, val) ==
    /\ pc[th] = "idle"
    /\ pc' = [pc EXCEPT ![th] = "acquire"]
    /\ frame' = [frame EXCEPT ![th] = [NoCacheCall EXCEPT !.op = op,
                                                         !.key = key,
                                                         !.val = val]]
    /\ nops' = nops + 1
    /\ UNCHANGED <<corpus, search_cache, cache_timestamps, cache_stats,
                   cache_max_size, cache_max_memory, now, ret, prev, putLog,
                   useOrder, sweep, cache_lock>>

CanAcquire_Always(th) == TRUE

\* threading.Lock: acquired only when no thread holds it
CanAcquire(th) == cache_lock = 0

\* with self._cache_lock: thread th enters and reads the cache
Acquire(th) ==
    /\ pc[th] = "acquire"
    /\ CanAcquire(th)
    /\ cache_lock' = th
    /\ pc' = [pc EXCEPT ![th] = "inside"]
    /\ frame' = [frame EXCEPT ![th].snap = CacheState]
    /\ UNCHANGED <<corpus, search_cache, cache_timestamps, cache_stats,
                   cache_max_size, cache_max_memory, now, ret, prev, putLog,
                   useOrder, sweep, nops>>

\* thread th, inside the method, updates the cache it has read; prev is the
\* cache as the calls leave it when run one at a time, from start to end, in
\* the order of their updates
Body(th) ==
    LET f == frame[th]
        done == CacheCall(f.snap, f.op, f.key, f.val, now)
        serial == CacheCall(prev, f.op, f.key, f.val, now)
    IN  /\ pc[th] = "inside"
        /\ SetCache(done.cs)
        /\ pc' = [pc EXCEPT ![th] = "release"]
        /\ frame' = [frame EXCEPT ![th].result = done.result]
        /\ prev' = serial.cs
        /\ UNCHANGED <<corpus, cache_max_size, cache_max_memory, now, ret,
                       putLog, useOrder, sweep, nops, cache_lock>>

\* thread th leaves the with block and returns
Release(th) ==
    LET f == frame[th]
    IN  /\ pc[th] = "release"
        /\ cache_lock' = 0
        /\ pc' = [pc EXCEPT ![th] = "idle"]
        /\ ret' = [op |-> f.op, thread |-> th, key |-> f.key,
                   result |-> f.result]
        /\ UNCHANGED <<corpus, search_cache, cache_timestamps, cache_stats,
                       cache_max_size, cache_max_memory, now, prev, putLog,
                       useOrder, sweep, nops, frame>>

\* one key more than the cache holds
LockKeys == {CacheKeyOf(i) : i \in 1 .. SmallCacheSize + 1}

InitLock ==
    /\ EmptyCache
    /\ corpus = <<>>
    /\ cache_max_size = SmallCacheSize
    /\ cache_max_memory = SmallCacheMemory
    /\ ret = NoLockedCall
    /\ prev = ColdCache
    /\ putLog = <<>>
    /\ useOrder = <<>>
    /\ sweep = <<>>
    /\ pc = [th \in Threads |-> "idle"]
    /\ frame = [th \in Threads |-> NoCacheCall]

NextLock ==
    \/ /\ nops < MaxLockOps
       /\ \E th \in Threads, k \in LockKeys : Call(th, "get", k, <<>>)
    \/ /\ nops < MaxLockOps
       /\ \E th \in Threads, k \in LockKeys, v \in LruValues :
            Call(th, "put", k, v)
    \/ /\ nops < MaxLockOps
       /\ \E th \in Threads : Call(th, "stats", CacheKeyOf(0), <<>>)
    \/ \E th \in Threads : Acquire(th)
    \/ \E th \in Threads : Body(th)
    \/ \E th \in Threads : Release(th)
    \/ Tick

SpecLock == InitLock /\ [][NextLock]_vars

\* ------------------------------------------------------------------------
\* The cache statistics under arbitrary gets and puts
\* ------------------------------------------------------------------------

\* number of calls made in one behaviour of the statistics specification
MaxStatsOps == 5

\* the calls counted by the caller, independently of self._cache_stats:
\* lookups made, entries that left the dictionary, keys a put added to it
NoCounts == [lookups |-> 0, removed |-> 0, added |-> 0]

\* a query thread calls _get_cached_result(key)
Lookup(key) ==
    LET g == GetCachedResult(CacheState, key, now)
    IN  /\ SetCache(g.cs)
        /\ ret' = [op |-> "get", key |-> key, hit |-> g.hit, val |-> g.val,
                   at |-> now, before |-> CacheKeys(search_cache),
                   over |-> StrLen(search_cache) > cache_max_memory]
        /\ putLog' = [putLog EXCEPT
                        !.lookups = @ + 1,
                        !.removed = @ + Len(search_cache) - Len(g.cs.sc)]
        /\ nops' = nops + 1
        /\ UNCHANGED <<corpus, cache_max_size, cache_max_memory, now, prev,
                       useOrder, sweep, cache_lock, pc, frame>>

\* a query thread calls _cache_result(key, val): the dictionary the
\* assignment of line 79 finds is the one the two eviction passes left
Store(key, val) ==
    LET room  == EvictWhileFull(CleanupCacheByMemory(CacheState))
        after == CacheResult(CacheState, key, val, now)
    IN  /\ SetCache(after)
        /\ ret' = [op |-> "put", key |-> key, hit |-> FALSE, val |-> val,
                   at |-> now, before |-> CacheKeys(search_cache),
                   over |-> StrLen(search_cache) > cache_max_memory]
        /\ putLog' = [putLog EXCEPT
                        !.removed = @ + Len(search_cache) - Len(room.sc),
                        !.added = @ + Len(after.sc) - Len(room.sc)]
        /\ nops' = nops + 1
        /\ UNCHANGED <<corpus, cache_max_size, cache_max_memory, now, prev,
                       useOrder, sweep, cache_lock, pc, frame>>

InitStats ==
    /\ EmptyCache
    /\ NoThreads
    /\ corpus = <<>>
    /\ cache_max_size = SmallCacheSize
    /\ cache_max_memory = SmallCacheMemory
    /\ ret = NoCall
    /\ prev = NoCall
    /\ putLog = NoCounts
    /\ useOrder = <<>>
    /\ sweep = <<>>

NextStats ==
    \/ /\ nops < MaxStatsOps
       /\ \E k \in SmallKeys : Lookup(k)
    \/ /\ nops < MaxStatsOps
       /\ \E k \in SmallKeys, v \in CacheValues : Store(k, v)
    \/ Tick

SpecStats == InitStats /\ [][NextStats]_vars

\* --- the cache under puts at two memory budgets: one that is exceeded by a
\* --- few entries, one that is exceeded only by a full cache
SweepBudgets == {SmallCacheMemory, LruCacheMemory}

InitSweep ==
    /\ EmptyCache
    /\ NoThreads
    /\ corpus = <<>>
    /\ cache_max_size = LruCacheSize
    /\ cache_max_memory \in SweepBudgets
    /\ ret = NoCall
    /\ prev = NoCall
    /\ putLog = [k \in LruKeys |-> NoPut]
    /\ useOrder = <<>>
    /\ sweep = <<>>

SpecSweep == InitSweep /\ [][NextLru]_vars

\* ------------------------------------------------------------------------
\* Word indices of FuzzySearchService (api/services/fuzzy_search_service.py)
\* ------------------------------------------------------------------------

\* number of verses of the corpus of the word index specification
NumIndexVerses == 2

\* number of calls made in one behaviour of the word index specification
MaxIndexOps == 1

\* \w of the regular expression, over the characters of the model's texts
IsWordChar(ch) == ch \in {"q", "Q", "r"}

\* re.findall(r'\b\w{n,}\b', s): the maximal runs of word characters of
\* length n or more, in the order of the text; run is the run being read
RECURSIVE FindWords(_, _, _)
FindWords(s, run, n) ==
    LET found == IF Len(run) >= n THEN <<run>> ELSE <<>>
    IN  IF s = <<>> THEN found
        ELSE IF IsWordChar(Head(s))
        THEN FindWords(Tail(s), Append(run, Head(s)), n)
        ELSE found \o FindWords(Tail(s), <<>>, n)

ExtractWords_AnyLength(text) ==
    IF text = <<>> THEN <<>> ELSE FindWords(Lower(text), <<>>, 1)

\* _extract_words
ExtractWords(text) ==
    IF text = <<>> THEN <<>>
    ELSE SelectSeq(FindWords(Lower(text), <<>>, 3),
                   LAMBDA word : Len(word) >= 3)

\* a in b, for strings
IsSubstring(a, b) ==
    \E i \in 0 .. Len(b) - Len(a) : SubSeq(b, i + 1, i + Len(a)) = a

\* list(set(words)): the words once each
RECURSIVE SetOfWords(_)
SetOfWords(words) ==
    IF words = <<>> THEN <<>>
    ELSE LET rest == SetOfWords(Tail(words))
         IN  IF Head(words) \in Range(rest) THEN rest ELSE <<Head(words)>> \o rest

\* index[word], an empty list for a word that is not a key
Bucket(index, word) == IF word \in DOMAIN index THEN index[word] ELSE <<>>

\* for word in words: index[word].append(sloka_ref)
RECURSIVE AppendToBuckets(_, _, _)
AppendToBuckets(index, words, sloka_ref) ==
    IF words = <<>> THEN index
    ELSE LET word == Head(words)
             added == [w \in (DOMAIN index) \cup {word} |->
                          IF w = word
                          THEN Append(Bucket(index, word), sloka_ref)
                          ELSE index[w]]
         IN  AppendToBuckets(added, Tail(words), sloka_ref)

\* the indices before the first verse is read; next is the position of the
\* loop over the verses, a sloka_ref is the position of its verse
NoIndex ==
    [translation_word_index |-> << >>, sanskrit_word_index |-> << >>,
     translation_index |-> <<>>, sanskrit_index |-> <<>>, next |-> 1]

\* _build_search_indices: the body of the loop for one verse
IndexOneSloka(svc, sloka, sloka_ref) ==
    LET words == ExtractWords(Lower(sloka.translation))
        sanskrit_words == ExtractWords(Lower(sloka.sloka_text))
        meaning_words == ExtractWords(Lower(sloka.meaning))
        all_words == SetOfWords(sanskrit_words \o meaning_words)
        tr == IF sloka.translation # <<>>
              THEN [svc EXCEPT
                      !.translation_word_index =
                          AppendToBuckets(@, words, sloka_ref),
                      !.translation_index = Append(@, sloka_ref)]
              ELSE svc
    IN  IF sloka.sloka_text # <<>> /\ sloka.meaning # <<>>
        THEN [tr EXCEPT
                !.sanskrit_word_index = AppendToBuckets(@, all_words, sloka_ref),
                !.sanskrit_index = Append(@, sloka_ref),
                !.next = @ + 1]
        ELSE [tr EXCEPT !.next = @ + 1]

\* candidate_refs.update(bucket) raises TypeError for a bucket that is not
\* empty (a sloka_ref is a dict and cannot be a member of a set); without a
\* word of the query in the index candidate_refs stays empty
GetCandidates(word_index, query) ==
    LET query_words == ExtractWords(query)
    IN  IF query_words = <<>> THEN [raised |-> FALSE, out |-> <<>>]
        ELSE IF \E i \in DOMAIN query_words :
                   /\ query_words[i] \in DOMAIN word_index
                   /\ word_index[query_words[i]] # <<>>
        THEN [raised |-> TRUE, out |-> <<>>]
        ELSE [raised |-> FALSE, out |-> <<>>]

\* _get_translation_candidates, _get_sanskrit_candidates
GetTranslationCandidates(svc, query) ==
    GetCandidates(svc.translation_word_index, query)
GetSanskritCandidates(svc, query) ==
    GetCandidates(svc.sanskrit_word_index, query)

\* rapid_fuzz.partial_ratio(text, query) is a library primitive: 100 for a
\* query that is part of the text, otherwise the score the corpus gives
\* for the verse (near)
TextRatio(text, query, near) ==
    IF query = <<>> THEN 0
    ELSE IF IsSubstring(query, text) THEN 100
    ELSE near

\* max_workers=4 of the pool / len(candidates) // 4
PoolWorkers == 4

\* chunk_size = max(50, ...)
PoolMinChunk == 1

\* _search_chunk, for search_type 'translation'
RECURSIVE SearchChunk(_, _, _, _)
SearchChunk(chunk, c, query, threshold) ==
    IF chunk = <<>> THEN <<>>
    ELSE LET item  == c[Head(chunk)]
             text  == Lower(item.translation)
             ratio == TextRatio(text, query, item.near)
             rest  == SearchChunk(Tail(chunk), c, query, threshold)
         IN  IF item.translation = <<>> THEN rest
             ELSE IF ratio > threshold
             THEN <<Result(item.id, ratio, "none")>> \o rest
             ELSE rest

\* chunks = [candidates[i:i+chunk_size] for i in range(0, n, chunk_size)]
FuzzyChunks(candidates) ==
    Chunks(candidates,
           Max(PoolMinChunk, Len(candidates) \div PoolWorkers))

\* _parallel_fuzzy_search: the chunks are collected in the order submitted
RECURSIVE CollectFuzzy(_, _, _, _)
CollectFuzzy(chunks, c, query, threshold) ==
    IF chunks = <<>> THEN <<>>
    ELSE SearchChunk(Head(chunks), c, query, threshold)
         \o CollectFuzzy(Tail(chunks), c, query, threshold)

ParallelFuzzySearch(candidates, c, query, threshold) ==
    IF candidates = <<>> THEN <<>>
    ELSE CollectFuzzy(FuzzyChunks(candidates), c, query, threshold)

\* FuzzySearchService.search_translation_fuzzy; the cache of this service
\* is the one above without the statistics and the memory sweep
IndexedSearchTranslationFuzzy(cs, svc, c, raw_query, max_results, t) ==
    LET query == Strip(Lower(raw_query))
        cache_key == GetCacheKey(query, "translation_all", NoKanda,
                                 DefaultThreshold)
        cached == GetCachedResult(cs, cache_key, t)
        found == GetTranslationCandidates(svc, query)
        candidates == IF found.out = <<>> THEN svc.translation_index
                      ELSE found.out
        results == SortByRatioDesc(
                       ParallelFuzzySearch(candidates, c, query,
                                           DefaultThreshold))
        final_results == PySlice(results, 0, max_results)
    IN  IF query = <<>>
        THEN [cs |-> cs, raised |-> FALSE, out |-> <<>>, scored |-> <<>>]
        ELSE IF cached.hit /\ cached.val # <<>>
        THEN [cs |-> cached.cs, raised |-> FALSE,
              out |-> PySlice(cached.val, 0, max_results), scored |-> <<>>]
        ELSE IF found.raised
        THEN [cs |-> cached.cs, raised |-> TRUE, out |-> <<>>,
              scored |-> <<>>]
        ELSE [cs |-> CacheResult(cached.cs, cache_key, final_results, t),
              raised |-> FALSE, out |-> final_results, scored |-> candidates]

\* --- the service from its construction on
NoIndexCall ==
    [op |-> "none", query |-> <<>>, max_results |-> 0, raised |-> FALSE,
     out |-> <<>>, scored |-> <<>>]

\* one turn of the loop of _build_search_indices
IndexSloka ==
    /\ pc.main = "build"
    /\ frame.next <= Len(corpus)
    /\ frame' = IndexOneSloka(frame, corpus[frame.next], frame.next)
    /\ UNCHANGED <<corpus, search_cache, cache_timestamps, cache_stats,
                   cache_max_size, cache_max_memory, now, ret, prev, putLog,
                   useOrder, sweep, nops, cache_lock, pc>>

\* the loop ends: __init__ returns
IndicesBuilt ==
    /\ pc.main = "build"
    /\ frame.next > Len(corpus)
    /\ pc' = [pc EXCEPT !.main = "ready"]
    /\ UNCHANGED <<corpus, search_cache, cache_timestamps, cache_stats,
                   cache_max_size, cache_max_memory, now, ret, prev, putLog,
                   useOrder, sweep, nops, cache_lock, frame>>

\* a call of _get_translation_candidates or _get_sanskrit_candidates
CandidatesCall(op, query) ==
    LET found == IF op = "translation_candidates"
                 THEN GetTranslationCandidates(frame, query)
                 ELSE GetSanskritCandidates(frame, query)
    IN  /\ pc.main = "ready"
        /\ ret' = [op |-> op, query |-> query, max_results |-> 0,
                   raised |-> found.raised, out |-> found.out,
                   scored |-> <<>>]
        /\ nops' = nops + 1
        /\ UNCHANGED <<corpus, search_cache, cache_timestamps, cache_stats,
                       cache_max_size, cache_max_memory, now, prev, putLog,
                       useOrder, sweep, cache_lock, pc, frame>>

\* a call of search_translation_fuzzy
IndexedSearch(query, max_results) ==
    LET o == IndexedSearchTranslationFuzzy(CacheState, frame, corpus, query,
                                           max_results, now)
    IN  /\ pc.main = "ready"
        /\ SetCache(o.cs)
        /\ ret' = [op |-> "search", query |-> query,
                   max_results |-> max_results, raised |-> o.raised,
                   out |-> o.out, scored |-> o.scored]
        /\ nops' = nops + 1
        /\ UNCHANGED <<corpus, cache_max_size, cache_max_memory, now, prev,
                       putLog, useOrder, sweep, cache_lock, pc, frame>>

\* translations: a word, a word twice (once capitalised), a short word and
\* a word, a short word alone, none
Translations ==
    { <<"q", "q", "q">>,
      <<"Q", "q", "q", " ", "q", "q", "q">>,
      <<"q", "q", " ", "r", "r", "r">>,
      <<"q", "q">>,
      <<>> }

\* text and meaning of a verse
TextAndMeaning ==
    { << <<"r", "r", "r">>, <<"Q", "q", "q", " ", "r", "r", "r">> >>,
      << <<"q", "q">>, <<"q", "q", "q">> >>,
      << <<>>, <<"r", "r", "r">> >> }

\* scores of the texts that do not contain the query
NearScores == {50, 85}

\* the queries: words of the texts, a short word, a word of no text
IndexQueries ==
    { <<"q", "q", "q">>,
      <<"Q", "q", "q", " ">>,
      <<"r", "r", "r", " ", "q", "q">>,
      <<"q", "q">>,
      <<"r", "r", "q">> }

\* self._cache_max_memory_mb of this specification: never exceeded
NoBudget == 1000

InitIndex ==
    /\ EmptyCache
    /\ cache_max_size = SmallCacheSize
    /\ cache_max_memory = NoBudget
    /\ corpus \in { [i \in 1 .. NumIndexVerses |->
                       [id |-> i, kanda |-> 1, translation |-> tr[i],
                        sloka_text |-> tm[i][1], meaning |-> tm[i][2],
                        near |-> nr]] :
                    tr \in [1 .. NumIndexVerses -> Translations],
                    tm \in [1 .. NumIndexVerses -> TextAndMeaning],
                    nr \in NearScores }
    /\ pc = [main |-> "build"]
    /\ frame = NoIndex
    /\ ret = NoIndexCall
    /\ prev = NoIndexCall
    /\ putLog = <<>>
    /\ useOrder = <<>>
    /\ sweep = <<>>

NextIndex ==
    \/ IndexSloka
    \/ IndicesBuilt
    \/ /\ nops < MaxIndexOps
       /\ \E q \in IndexQueries : CandidatesCall("translation_candidates", q)
    \/ /\ nops < MaxIndexOps
       /\ \E q \in IndexQueries : CandidatesCall("sanskrit_candidates", q)
    \/ /\ nops < MaxIndexOps
       /\ \E q \in IndexQueries, m \in {1, NumIndexVerses + 1} :
            IndexedSearch(q, m)
    \/ Tick

SpecIndex == InitIndex /\ [][NextIndex]_vars

\* ------------------------------------------------------------------------
\* Chunks and the worker pools that score them
\* ------------------------------------------------------------------------

\* largest number of candidates of the chunking specification
MaxCandidates == 17

\* max_workers of self._thread_pool of the optimized service:
\* min(8, (ThreadPoolExecutor()._max_workers or 1) * 2), where the default
\* of the library is min(32, cpu_count + 4), at least 5
ThreadPoolSize == 8

\* the searches that score chunks in a pool: _parallel_fuzzy_search of
\* FuzzySearchService ("fuzzy"), search_translation_fuzzy and
\* search_sloka_sanskrit_fuzzy of the optimized service
ChunkedSearches == {"fuzzy", "translation", "sanskrit"}

\* the chunks a search makes of its candidates
PartitionOf(kind, candidates) ==
    IF kind = "fuzzy"
    THEN IF candidates = <<>> THEN <<>> ELSE FuzzyChunks(candidates)
    ELSE Chunks(candidates, ChunkSize(kind, Len(candidates)))

\* max_workers of the pool the chunks are submitted to
PoolSize(kind) ==
    IF kind = "fuzzy" THEN PoolWorkers
    ELSE IF kind = "translation" THEN ThreadPoolSize
    ELSE SkWorkers

NoPartition ==
    [kind |-> "none", candidates |-> <<>>, chunks |-> <<>>, pool |-> 0,
     futures |-> <<>>]

\* the tasks of the pool that run on one of its threads
Running(futures) == {j \in DOMAIN futures : futures[j] = "running"}

\* a search splits its candidates
SplitCandidates(kind) ==
    /\ pc.main = "idle"
    /\ pc' = [pc EXCEPT !.main = "submit"]
    /\ frame' = [frame EXCEPT !.kind = kind,
                              !.chunks = PartitionOf(kind, frame.candidates),
                              !.pool = PoolSize(kind)]
    /\ nops' = nops + 1
    /\ UNCHANGED <<corpus, search_cache, cache_timestamps, cache_stats,
                   cache_max_size, cache_max_memory, now, ret, prev, putLog,
                   useOrder, sweep, cache_lock>>

\* pool.submit(...) for the next chunk: the task runs on a thread of the
\* pool when there is one left, and waits in the queue of the pool otherwise
SubmitChunk ==
    /\ pc.main = "submit"
    /\ Len(frame.futures) < Len(frame.chunks)
    /\ frame' = [frame EXCEPT !.futures =
                    Append(@, IF Cardinality(Running(@)) < frame.pool
                              THEN "running" ELSE "queued")]
    /\ UNCHANGED <<corpus, search_cache, cache_timestamps, cache_stats,
                   cache_max_size, cache_max_memory, now, ret, prev, putLog,
                   useOrder, sweep, nops, cache_lock, pc>>

\* the task of chunk j finishes: its thread takes the first task that waits
TaskFinishes(j) ==
    LET waiting == {k \in DOMAIN frame.futures : frame.futures[k] = "queued"}
        first == CHOOSE k \in waiting : \A other \in waiting : k <= other
    IN  /\ pc.main = "submit"
        /\ j \in DOMAIN frame.futures
        /\ frame.futures[j] = "running"
        /\ frame' = [frame EXCEPT !.futures =
                        [k \in DOMAIN @ |->
                            IF k = j THEN "done"
                            ELSE IF waiting # {} /\ k = first THEN "running"
                            ELSE @[k]]]
        /\ UNCHANGED <<corpus, search_cache, cache_timestamps, cache_stats,
                       cache_max_size, cache_max_memory, now, ret, prev,
                       putLog, useOrder, sweep, nops, cache_lock, pc>>

InitChunks ==
    /\ EmptyCache
    /\ corpus = <<>>
    /\ cache_max_size = SmallCacheSize
    /\ cache_max_memory = SmallCacheMemory
    /\ ret = NoRun
    /\ prev = NoRun
    /\ putLog = <<>>
    /\ useOrder = <<>>
    /\ sweep = <<>>
    /\ pc = [main |-> "idle"]
    /\ \E n \in 0 .. MaxCandidates :
          frame = [NoPartition EXCEPT !.candidates = [i \in 1 .. n |-> i]]

NextChunks ==
    \/ \E kind \in ChunkedSearches : SplitCandidates(kind)
    \/ SubmitChunk
    \/ \E j \in 1 .. MaxCandidates + 1 : TaskFinishes(j)

SpecChunks == InitChunks /\ [][NextChunks]_vars

\* ------------------------------------------------------------------------
\* Streaming searches of concurrent request threads, step by step:
\* search_stream updates self._search_stats outside of any lock
\* ------------------------------------------------------------------------

\* number of calls made in one behaviour of the runs specification
MaxRunOps == 3

\* the times a run can take, as time.time() measures them
SearchTimes == {0, 1}

RECURSIVE Gcd(_, _)
Gcd(a, b) == IF b = 0 THEN a ELSE Gcd(b, a % b)

\* the number num / den in lowest terms (den > 0)
Fraction(num, den) ==
    LET g == Gcd(num, den)
    IN  [num |-> num \div g, den |-> den \div g]

\* self._search_stats after __init__; avg_response_time is a float, kept
\* as the exact fraction num / den
NewSearchStats ==
    [total_searches |-> 0, avg_response_time |-> [num |-> 0, den |-> 1]]

\* the locals of a thread that runs no generator
NoGenerator ==
    [query |-> <<>>, search_type |-> "translation", threshold |-> 0,
     batch_size |-> 0, stream |-> NewSearchStream(<<>>, 0),
     loaded |-> 0, search_time |-> 0, current_avg |-> [num |-> 0, den |-> 1],
     total_searches |-> 0, yields |-> 0]

\* a step of the generator of thread th that touches its locals only
RunStep(th, at, f) ==
    /\ pc' = [pc EXCEPT ![th] = at]
    /\ frame' = [frame EXCEPT ![th] = f]
    /\ UNCHANGED <<corpus, search_cache, cache_timestamps, cache_stats,
                   cache_max_size, cache_max_memory, now, ret, prev, putLog,
                   useOrder, sweep, nops, cache_lock>>

StartStream_Lookup(th, raw_query, search_type, threshold, batch_size) ==
    LET query == Strip(Lower(raw_query))
        looked == GetCachedResult(CacheState,
                                  GetCacheKey(query, search_type, NoKanda,
                                              threshold), now)
    IN  /\ pc[th] = "idle"
        /\ nops' = nops + 1
        /\ IF query = <<>>
           THEN UNCHANGED <<pc, frame, putLog, search_cache, cache_timestamps,
                            cache_stats>>
           ELSE /\ pc' = [pc EXCEPT ![th] = "load"]
                /\ frame' = [frame EXCEPT ![th] =
                     [NoGenerator EXCEPT
                        !.query = raw_query, !.search_type = search_type,
                        !.threshold = threshold, !.batch_size = batch_size,
                        !.stream = NewSearchStream(raw_query, batch_size)]]
                /\ putLog' = [putLog EXCEPT !.started = @ + 1]
                /\ SetCache(looked.cs)
        /\ UNCHANGED <<corpus, cache_max_size, cache_max_memory, now, ret,
                       prev, useOrder, sweep, cache_lock>>

\* thread th calls search_stream and asks for the first batch: the
\* generator starts, and returns at once for an empty query
StartStream(th, raw_query, search_type, threshold, batch_size) ==
    LET query == Strip(Lower(raw_query))
    IN  /\ pc[th] = "idle"
        /\ nops' = nops + 1
        /\ IF query = <<>>
           THEN UNCHANGED <<pc, frame, putLog>>
           ELSE /\ pc' = [pc EXCEPT ![th] = "load"]
                /\ frame' = [frame EXCEPT ![th] =
                     [NoGenerator EXCEPT
                        !.query = raw_query, !.search_type = search_type,
                        !.threshold = threshold, !.batch_size = batch_size,
                        !.stream = NewSearchStream(raw_query, batch_size)]]
                /\ putLog' = [putLog EXCEPT !.started = @ + 1]
        /\ UNCHANGED <<corpus, search_cache, cache_timestamps, cache_stats,
                       cache_max_size, cache_max_memory, now, ret, prev,
                       useOrder, sweep, cache_lock>>

\* self._search_stats['total_searches'] += 1 reads the counter ...
LoadTotal(th) ==
    /\ pc[th] = "load"
    /\ RunStep(th, "store",
               [frame[th] EXCEPT !.loaded = sweep.total_searches])

\* ... and stores the value read plus one
StoreTotal(th) ==
    /\ pc[th] = "store"
    /\ sweep' = [sweep EXCEPT !.total_searches = frame[th].loaded + 1]
    /\ pc' = [pc EXCEPT ![th] = "scan"]
    /\ UNCHANGED <<corpus, search_cache, cache_timestamps, cache_stats,
                   cache_max_size, cache_max_memory, now, ret, prev, putLog,
                   useOrder, nops, cache_lock, frame>>

\* the generator runs to its next yield, or to the end of its try block
NextBatch(th) ==
    LET f == frame[th]
        r == SearchStreamNext(corpus, f.query, f.search_type, f.threshold,
                              f.batch_size, f.stream)
    IN  /\ pc[th] = "scan"
        /\ IF r.stop
           THEN RunStep(th, "finally", [f EXCEPT !.stream = r.g])
           ELSE RunStep(th, "scan", [f EXCEPT !.stream = r.g,
                                              !.yields = @ + 1])

\* finally: search_time = time.time() - start_time;
\* current_avg = self._search_stats['avg_response_time']
ReadAverage(th, search_time) ==
    /\ pc[th] = "finally"
    /\ RunStep(th, "total",
               [frame[th] EXCEPT !.search_time = search_time,
                                 !.current_avg = sweep.avg_response_time])

\* total_searches = self._search_stats['total_searches']
ReadTotal(th) ==
    /\ pc[th] = "total"
    /\ RunStep(th, "average",
               [frame[th] EXCEPT !.total_searches = sweep.total_searches])

\* self._search_stats['avg_response_time'] =
\*     (current_avg * (total_searches - 1) + search_time) / total_searches
StoreAverage(th) ==
    LET f == frame[th]
    IN  /\ pc[th] = "average"
        /\ sweep' = [sweep EXCEPT !.avg_response_time =
                        Fraction(f.current_avg.num * (f.total_searches - 1)
                                    + f.search_time * f.current_avg.den,
                                 f.current_avg.den * f.total_searches)]
        /\ pc' = [pc EXCEPT ![th] = "idle"]
        /\ frame' = [frame EXCEPT ![th] = NoGenerator]
        /\ UNCHANGED <<corpus, search_cache, cache_timestamps, cache_stats,
                       cache_max_size, cache_max_memory, now, ret, prev,
                       putLog, useOrder, nops, cache_lock>>

\* thread th calls search_translation_in_kanda_fuzzy (its cache calls run
\* under self._cache_lock, and it shares nothing else with the generators)
KandaSearch(th, kanda_number, query, threshold) ==
    LET o == SearchTranslationInKandaFuzzy(CacheState, corpus, kanda_number,
                                           query, threshold, now)
    IN  /\ pc[th] = "idle"
        /\ SetCache(o.cs)
        /\ ret' = [op |-> "translation_kanda", thread |-> th,
                   call |-> nops + 1, result |-> o.out]
        /\ nops' = nops + 1
        /\ UNCHANGED <<corpus, cache_max_size, cache_max_memory, now, prev,
                       putLog, useOrder, sweep, cache_lock, pc, frame>>

\* thread th calls get_cache_stats: the cache statistics with
\* 'search_stats': self._search_stats.copy()
StatsCall(th) ==
    /\ pc[th] = "idle"
    /\ ret' = [op |-> "stats", thread |-> th, call |-> nops + 1,
               result |-> [cache |-> GetCacheStats(CacheState),
                           search_stats |-> sweep]]
    /\ nops' = nops + 1
    /\ UNCHANGED <<corpus, search_cache, cache_timestamps, cache_stats,
                   cache_max_size, cache_max_memory, now, prev, putLog,
                   useOrder, sweep, cache_lock, pc, frame>>

NoRunCall == [op |-> "none", thread |-> 0, call |-> 0, result |-> <<>>]

\* two verses of kanda 1: a fuzzy match, and the word or a fuzzy match
InitRuns ==
    /\ EmptyCache
    /\ cache_max_size = SmallCacheSize
    /\ cache_max_memory = SmallCacheMemory
    /\ ret = NoRunCall
    /\ prev = NoRunCall
    /\ putLog = [started |-> 0]
    /\ useOrder = <<>>
    /\ sweep = NewSearchStats
    /\ pc = [th \in Threads |-> "idle"]
    /\ frame = [th \in Threads |-> NoGenerator]
    /\ corpus \in { <<[id |-> 1, kanda |-> 1, tr |-> Field(85, FALSE),
                       sk |-> Field(70, FALSE), mn |-> Field(85, FALSE)],
                      [id |-> 2, kanda |-> 1, tr |-> v.tr, sk |-> v.sk,
                       mn |-> v.mn]>> : v \in EntryVerses }

NextRuns ==
    \/ /\ nops < MaxRunOps
       /\ \E th \in Threads, q \in { <<>>, <<"q">> }, bs \in {0, 1} :
            StartStream(th, q, "translation", DefaultThreshold, bs)
    \/ \E th \in Threads : LoadTotal(th)
    \/ \E th \in Threads : StoreTotal(th)
    \/ \E th \in Threads : NextBatch(th)
    \/ \E th \in Threads, search_time \in SearchTimes :
         ReadAverage(th, search_time)
    \/ \E th \in Threads : ReadTotal(th)
    \/ \E th \in Threads : StoreAverage(th)
    \/ /\ nops < MaxRunOps
       /\ \E th \in Threads : KandaSearch(th, 1, <<"q">>, DefaultThreshold)
    \/ /\ nops < MaxRunOps
       /\ \E th \in Threads : StatsCall(th)

SpecRuns == InitRuns /\ [][NextRuns]_vars

\* ------------------------------------------------------------------------
\* Claims on the cache
\* ------------------------------------------------------------------------

\* C3: a get(k) issued after put(k, v), with no later put(k) and no eviction
\* of k, returns v while less than TTL has elapsed since the put and a miss
\* once TTL or more has elapsed, however many hits came in between.
C3_GetAfterPutWithinTTL ==
    (ret.op = "get" /\ putLog[ret.key].live) =>
        IF ret.at - putLog[ret.key].at < CacheTTL
        THEN ret.hit /\ ret.val = putLog[ret.key].val
        ELSE ~ret.hit

\* a lookup misses because TTL elapsed since the put, after a hit on the key
C3_Witness ==
    /\ ret.op = "get"
    /\ putLog[ret.key].live
    /\ putLog[ret.key].hits >= 1
    /\ ret.at - putLog[ret.key].at >= CacheTTL
    /\ ~ret.hit

\* the case of C4: the last call put a new key in a full cache
PutNewKeyInFullCache ==
    /\ ret.op = "put"
    /\ ret.key \notin Range(ret.before)
    /\ Len(ret.before) = cache_max_size

\* exactly the least recently used entry left the cache
EvictedOnlyLru ==
    CacheKeys(search_cache) =
        (Range(ret.before) \ {Head(ret.before)}) \cup {ret.key}

\* C4 as stated: a put of a new key in a full cache evicts exactly one
\* entry, the least recently used one, and keeps every other entry.
C4_Original == PutNewKeyInFullCache => EvictedOnlyLru

\* C4 as amended: the same, when the memory estimate is within the budget
\* (above it the sweep removes the oldest quarter of the entries).
C4_LruEviction == (PutNewKeyInFullCache /\ ~ret.over) => EvictedOnlyLru

\* a new key was put in a full cache, within the memory budget, after a hit
\* changed which entry is the least recently used
C4_Witness ==
    /\ PutNewKeyInFullCache
    /\ ~ret.over
    /\ cache_stats.hits >= 1
    /\ Head(ret.before) # CacheKeyOf(1)

\* ------------------------------------------------------------------------
\* Claims on the searches
\* ------------------------------------------------------------------------

\* C1: no result returned for a request with threshold T has a score
\* below T (here: the HTTP translation search, over all kandas or in one).
C1_NoResultBelowThreshold ==
    (ret.op = "fuzzy_search" /\ ret.status = 200) =>
        \A i \in DOMAIN ret.results : ret.results[i].ratio >= ret.threshold

\* C2: a returned list is sorted by score descending, and results of equal
\* score are in ascending order of verse identifier.
C2_SortedWithTieBreak ==
    ret.op = "translation" =>
        \A i, j \in DOMAIN ret.out :
            i < j => \/ ret.out[i].ratio > ret.out[j].ratio
                     \/ /\ ret.out[i].ratio = ret.out[j].ratio
                        /\ ret.out[i].sloka_number < ret.out[j].sloka_number

\* the last two calls searched the same query
SameQueryTwice ==
    /\ prev.op = "translation"
    /\ ret.op = "translation"
    /\ Strip(Lower(prev.query)) = Strip(Lower(ret.query))

\* C5: search_translation(q, max_results=m2) issued after
\* search_translation(q, max_results=m1) returns what the same call returns
\* on a cold cache.
C5_CacheTransparent ==
    SameQueryTwice =>
        ret.out = SearchTranslationFuzzy(ColdCache, corpus, ret.query,
                                         ret.max_results, ret.at).out

\* C6: two consecutive calls with identical arguments return identical
\* lists, whether the second is served from the cache or recomputed.
C6_SameCallSameResult ==
    (prev.op = "translation" /\ ret.op = "translation"
        /\ prev.query = ret.query /\ prev.max_results = ret.max_results) =>
        ret.out = prev.out

\* the ranked list of every match of a query: the search without a limit
\* on a cold cache
FullRankedList(query, kanda_num, threshold) ==
    IF kanda_num = 0
    THEN SearchTranslationFuzzy(ColdCache, corpus, query, Len(corpus) + 1, 0).out
    ELSE SearchTranslationInKandaFuzzy(ColdCache, corpus, kanda_num, query,
                                       threshold, 0).out

\* C7: for a fixed query and page_size >= 1, the pages 1 .. total_pages
\* concatenated in order are the full ranked result list of the query.
C7_PagesReproduceFullList ==
    (sweep.active /\ sweep.done /\ sweep.requested >= 1) =>
        sweep.acc = FullRankedList(sweep.query, sweep.kanda, sweep.threshold)

\* ceil(n / s) for s >= 1
Ceil(n, s) == CHOOSE k \in 0 .. n : k * s >= n /\ (k = 0 \/ (k - 1) * s < n)

\* C8: for a list of N results, a page p >= 1 and a page size s >= 1 the
\* page holds min(s, max(0, N - (p-1)*s)) results, total_pages is
\* ceil(N / s), has_next is p < total_pages and has_prev is p > 1.
C8_PageArithmetic ==
    LET m == ret.pagination
        N == m.total_results
        p == m.page
        s == m.page_size
    IN  (ret.op = "fuzzy_search" /\ ret.status = 200 /\ p >= 1 /\ s >= 1) =>
            /\ Len(ret.results) = Min(s, Max(0, N - (p - 1) * s))
            /\ m.total_pages = Ceil(N, s)
            /\ m.has_next = (p < m.total_pages)
            /\ m.has_prev = (p > 1)

\* the last page of three results in pages of two: one result, no next page
C8_Witness ==
    /\ ret.op = "fuzzy_search"
    /\ ret.status = 200
    /\ ret.pagination.total_results = 3
    /\ ret.pagination.page = 2
    /\ ret.pagination.page_size = 2
    /\ Len(ret.results) = 1
    /\ ~ret.pagination.has_next
    /\ ret.pagination.has_prev

\* C9: whatever page_size is requested, the page size used and reported
\* is at most the configured maximum and no page holds more results.
C9_PageSizeClamped ==
    (ret.op = "fuzzy_search" /\ ret.status = 200) =>
        /\ ret.pagination.page_size <= MAX_PAGE_SIZE
        /\ Len(ret.results) <= MAX_PAGE_SIZE

\* C10: a search called with an empty or blank query returns nothing,
\* matches no verse against the query and neither reads nor writes the
\* cache.
C10_EmptyQueryRejected ==
    (ret.op # "none" /\ Strip(ret.query) = <<>>) =>
        /\ ret.out = <<>>
        /\ ret.scored = 0
        /\ ~ret.read
        /\ ~ret.wrote

\* ------------------------------------------------------------------------
\* Claims on the request arguments
\* ------------------------------------------------------------------------

\* the case of C11: a request with a query whose page is below 1, or whose
\* page, page_size or threshold is not an integer
InvalidPaging ==
    /\ ret.op = "fuzzy_search_args"
    /\ Strip(ret.query) # <<>>
    /\ \/ ~ParseInt(ret.threshold).ok
       \/ ~ParseInt(ret.page_size).ok
       \/ ~ParseInt(ret.page).ok
       \/ ParseInt(ret.page).val < 1

\* C11: a search request whose page is below 1, or whose page, page_size
\* or threshold is not a valid integer, is answered with a 4xx error, never
\* with a 5xx one, and no search is executed for it.
C11_InvalidArgsRejected ==
    InvalidPaging => /\ ret.status >= 400
                     /\ ret.status < 500
                     /\ ret.lookups = 0

\* the kandas of the corpus
CorpusKandas == {corpus[i].kanda : i \in DOMAIN corpus}

\* C12: a search in one kanda (translation or original text) for a kanda
\* number that is not a kanda of the corpus returns an empty list, for
\* every query and threshold.
C12_UnknownKandaEmpty ==
    (ret.op \in {"translation_kanda", "sanskrit_kanda"}
        /\ ret.kanda \notin CorpusKandas) =>
        ret.out = <<>>

\* a query that has results in kanda 1 has none in a kanda that is not one
C12_Witness ==
    /\ prev.op = "translation_kanda"
    /\ prev.kanda \in CorpusKandas
    /\ prev.out # <<>>
    /\ ret.op = "translation_kanda"
    /\ ret.kanda \notin CorpusKandas
    /\ ret.query = prev.query
    /\ ret.threshold = prev.threshold
    /\ ret.out = <<>>

\* ------------------------------------------------------------------------
\* Claims on the streaming search
\* ------------------------------------------------------------------------

\* the results of a list, as verse and score
ResultSet(results) ==
    {[sloka_number |-> results[i].sloka_number, ratio |-> results[i].ratio] :
        i \in DOMAIN results}

\* the results of every batch of a list of batches
RECURSIVE Flatten(_)
Flatten(batches) ==
    IF batches = <<>> THEN <<>> ELSE Head(batches) \o Flatten(Tail(batches))

\* the results delivered by the "batch" events of the response so far
Delivered ==
    Flatten([i \in DOMAIN ret.events |-> ret.events[i].results])

\* the non-streaming search of the same kind, query and threshold
NonStreaming(search_type, query, threshold) ==
    IF search_type = "translation"
    THEN SearchTranslationFuzzy(ColdCache, corpus, query, DefaultMaxResults,
                                0).out
    ELSE SearchSlokaSanskritFuzzy(ColdCache, corpus, query, threshold,
                                  DefaultMaxResults, 0).out

\* no verse of the corpus makes the scorer raise
NoFault ==
    \A i \in DOMAIN corpus : ~ItemRaises(corpus[i], "sloka_text")
                             /\ ~ItemRaises(corpus[i], "translation")

\* a streaming response over all kandas has ended
StreamEnded ==
    /\ ret.op = "stream"
    /\ ret.status = 200
    /\ ret.kanda = 0
    /\ pc.gen = "closed"

\* C13: the set of results delivered by search_stream over all its batches
\* equals the set of results of the non-streaming search of the same kind
\* for the same query and threshold (for a batch size of 1 or more, on a
\* corpus the scorer does not fail on).
C13_StreamEqualsSearch ==
    (StreamEnded /\ ret.batch_size >= 1 /\ NoFault) =>
        /\ ResultSet(Delivered) =
              ResultSet(NonStreaming(ret.search_type, ret.query, ret.threshold))
        /\ ResultSet(Flatten(SearchStream(corpus, ret.query, ret.search_type,
                                          ret.threshold, ret.batch_size))) =
              ResultSet(Delivered)

\* C14: the batches of search_stream concatenated in emission order are
\* sorted by score descending: no result of a later batch has a higher
\* score than a result of an earlier batch.
C14_BatchesRanked ==
    (ret.op = "stream" /\ ret.status = 200 /\ ret.kanda = 0) =>
        \A i, j \in DOMAIN Delivered :
            i < j => Delivered[i].ratio >= Delivered[j].ratio

\* the events of a streaming response so far
Events == ret.events

Terminal == {"complete", "error"}

\* the events are a start event, then batch events whose batch_number is
\* strictly increasing, then one terminal event once the response has
\* ended, with nothing after it; extra(i) are the other kinds of event
\* allowed at position i
WellFormedStream(extra(_)) ==
    /\ Events # <<>> => Events[1].type = "start"
    /\ \A i \in DOMAIN Events :
          i > 1 => Events[i].type \in {"batch"} \cup Terminal \cup extra(i)
    /\ \A i, j \in DOMAIN Events :
          (i < j /\ Events[i].type = "batch" /\ Events[j].type = "batch") =>
              Events[i].batch_number < Events[j].batch_number
    /\ \A i \in DOMAIN Events :
          Events[i].type \in Terminal => i = Len(Events)
    /\ ret.stopped => /\ Len(Events) >= 2
                      /\ Events[Len(Events)].type \in Terminal

NoExtraEvent(i) == {}

\* the single-kanda path sends the number of results after the start event
TotalEvent(i) == IF ret.kanda # 0 /\ i = 2 THEN {"total"} ELSE {}

ScorerRaised ==
    IF ret.kanda = 0
    THEN /\ ret.batch_size >= 1
         /\ \E i \in DOMAIN corpus :
               ItemRaises(corpus[i], IF ret.search_type = "translation"
                                     THEN "translation" ELSE "sloka_text")
    ELSE \E i \in DOMAIN corpus :
            /\ corpus[i].kanda = ret.kanda
            /\ IF ret.search_type = "translation"
               THEN Raises(corpus[i].tr) ELSE Raises(corpus[i].sk)

\* C16: if an error occurs part-way through a streaming search, the stream
\* ends with a single error marker and never with a completion marker.
C16_ErrorEndsStream ==
    (ret.op = "stream" /\ ret.status = 200 /\ ret.stopped /\ ScorerRaised) =>
        /\ Events[Len(Events)].type = "error"
        /\ Cardinality({i \in DOMAIN Events : Events[i].type = "error"}) = 1
        /\ \A i \in DOMAIN Events : Events[i].type # "complete"

\* ------------------------------------------------------------------------
\* Claims on the parallel scoring
\* ------------------------------------------------------------------------

\* the field a kind of search scores
FieldOf(kind) == IF kind = "translation" THEN "translation" ELSE "sloka_text"

\* the search of the last call, from start to end on a cold cache, over the
\* verses c
SearchOf(c) ==
    IF ret.op = "translation"
    THEN SearchTranslationFuzzy(ColdCache, c, ret.query, ret.max_results,
                                ret.at).out
    ELSE SearchSlokaSanskritFuzzy(ColdCache, c, ret.query, ret.threshold,
                                  ret.max_results, ret.at).out

\* the positions of the corpus on which the scorer raises, and the
\* positions of the chunks they are in
RaisingVerses == {i \in DOMAIN corpus : ItemRaises(corpus[i], FieldOf(ret.op))}

ChunkOf(i) == (i - 1) \div ChunkSize(ret.op, Len(corpus))

RaisingChunks == {ChunkOf(i) : i \in RaisingVerses}

\* the corpus without the verses at the positions gone
Without(gone) ==
    LET keep(i) == i \notin gone
        RECURSIVE Pick(_)
        Pick(i) == IF i > Len(corpus) THEN <<>>
                   ELSE IF keep(i) THEN <<corpus[i]>> \o Pick(i + 1)
                   ELSE Pick(i + 1)
    IN  Pick(1)

\* the case of C17: a search scored its chunks, every task finished, and
\* the scorer raised on a verse
ScoringRaised ==
    /\ ret.op \in {"translation", "sanskrit"}
    /\ ret.returned
    /\ ret.path = "parallel"
    /\ ret.timed_out = {}
    /\ RaisingVerses # {}

C18_SearchReturns == (pc.main = "collect") ~> (pc.main = "returned")

\* C19: the list a query returns (its members and their order) is the same
\* for every order in which the worker threads complete the chunks: it is
\* the list of the search run from start to end by one thread.
C19_CompletionOrderIrrelevant ==
    (ret.op \in {"translation", "sanskrit"} /\ ret.returned
        /\ ret.timed_out = {}) =>
        ret.out = SearchOf(corpus)

\* the chunks were completed in reverse order and both hold results of the
\* same score
C19_Witness ==
    /\ ret.op \in {"translation", "sanskrit"}
    /\ ret.returned
    /\ ret.path = "parallel"
    /\ ret.timed_out = {}
    /\ Len(ret.order) >= 2
    /\ ret.order[1] > ret.order[2]
    /\ \E a, b \in DOMAIN ret.out :
          /\ a < b
          /\ ret.out[a].ratio = ret.out[b].ratio
          /\ \E i, k \in DOMAIN corpus :
                /\ corpus[i].id = ret.out[a].sloka_number
                /\ corpus[k].id = ret.out[b].sloka_number
                /\ ChunkOf(i) < ChunkOf(k)

\* ------------------------------------------------------------------------
\* Claims on the cache lock
\* ------------------------------------------------------------------------

\* the threads inside a cache method
InsideCache == {th \in Threads : pc[th] \in {"inside", "release"}}

\* C20: under any interleaving of get, put (with its evictions) and
\* statistics calls of concurrent threads at most one thread is inside a
\* cache method, it is the holder of the lock, and the cache is what the
\* calls give when run one at a time in some order (that of their updates).
C20_CacheCallsSerialized ==
    /\ Cardinality(InsideCache) <= 1
    /\ \A th \in InsideCache : cache_lock = th
    /\ CacheState = prev

\* a thread is inside the cache while the other one waits for the lock,
\* after a call that changed the cache
C20_Witness ==
    /\ \E a, b \in Threads :
          /\ pc[a] = "release"
          /\ pc[b] = "acquire"
          /\ frame[a].op = "put"
          /\ frame[b].op = "get"
          /\ frame[a].key = frame[b].key
    /\ cache_stats.misses >= 1

\* ------------------------------------------------------------------------
\* Claims on the cache statistics
\* ------------------------------------------------------------------------

\* C21: after any sequence of cache calls, hits + misses is the number of
\* lookups made, and the eviction count is the number of entries removed
\* from the dictionary (expired, over the size limit, or swept for memory),
\* which is the number of puts that added a key minus the entries present.
C21_StatsCountCalls ==
    /\ cache_stats.hits + cache_stats.misses = putLog.lookups
    /\ cache_stats.evictions = putLog.removed
    /\ cache_stats.evictions = putLog.added - Len(search_cache)

\* a lookup has just removed an expired entry, after a hit and after a put
\* that evicted an entry
C21_Witness ==
    /\ ret.op = "get"
    /\ ret.key \in ret.before
    /\ ~ ret.hit
    /\ cache_stats.hits >= 1
    /\ cache_stats.evictions >= 2
    /\ putLog.added > putLog.removed

\* ------------------------------------------------------------------------
\* Claims on the search restricted to one kanda
\* ------------------------------------------------------------------------

\* the verses of a result list
Slokas(results) == {results[i].sloka_number : i \in DOMAIN results}

\* what the request answered in ret finds when sent without the kanda:
\* the list the service returns and the response built from it
AllKandasList ==
    SearchTranslationFuzzy(ColdCache, corpus, Strip(ret.query),
                           ClampPageSize(ret.requested) * ResultLimitFactor,
                           ret.at).out
AllKandasResponse ==
    FuzzySearchSlokas(ColdCache, corpus, ret.query, 0, ret.threshold,
                      ret.page, ret.requested, ret.at)

\* C22: for the same query and threshold (and the same page and a page_size
\* of at least 1)
\* the results of a search restricted to one kanda are among the results of
\* the search over all kandas, and the total_results of the restricted
\* search is at most the total_results of the search over all kandas.
C22_KandaResultsSubset ==
    (ret.op = "fuzzy_search" /\ ret.status = 200 /\ ret.kanda # 0
        /\ ret.requested >= 1)
        => /\ AllKandasResponse.status = 200
           /\ Slokas(ret.results) \subseteq Slokas(AllKandasList)
           /\ ret.pagination.total_results
                 <= AllKandasResponse.pagination.total_results

\* ------------------------------------------------------------------------
\* Claims on the threshold
\* ------------------------------------------------------------------------

\* the translation search has scored the corpus (the list is not a cached
\* one) and has not cut the list to max_results
ScoredInFull ==
    /\ ret.op = "translation"
    /\ ret.wrote
    /\ Len(ret.out) < ret.max_results

\* C23: the search discards exactly the verses whose score is below the
\* threshold: a verse whose score is equal to the threshold is returned
\* (here: the translation search over all kandas, threshold 70).
C23_ScoreAtThresholdReturned ==
    ScoredInFull =>
        \A i \in DOMAIN corpus :
            PartialRatio(corpus[i].tr, Strip(Lower(ret.query))) >= ret.threshold
                <=> corpus[i].id \in Slokas(ret.out)

\* ------------------------------------------------------------------------
\* Claims on the size of the cache
\* ------------------------------------------------------------------------

\* C24: in every reachable state, after any sequence of get and put calls
\* of one thread or of concurrent threads, the number of entries of the
\* cache is at most the configured maximum.
C24_SizeBounded ==
    /\ Len(search_cache) <= cache_max_size
    /\ Cardinality(DOMAIN cache_timestamps) <= cache_max_size

\* a thread has just put a new key into a cache that held the maximum
\* number of entries, and the put has evicted one of them
C24_Witness ==
    \E a \in Threads :
        /\ pc[a] = "release"
        /\ frame[a].op = "put"
        /\ Len(frame[a].snap.sc) = cache_max_size
        /\ frame[a].key \notin CacheKeys(frame[a].snap.sc)
        /\ frame[a].key \in CacheKeys(search_cache)
        /\ Len(search_cache) = cache_max_size
        /\ cache_stats.evictions = 1

\* ------------------------------------------------------------------------
\* Claims on the memory sweep
\* ------------------------------------------------------------------------

\* the step is a call of _cache_result
IsPut == ret'.op = "put" /\ nops' = nops + 1

\* the entries of sc but the count oldest ones
DropOldest(sc, count) == SubSeq(sc, Min(count, Len(sc)) + 1, Len(sc))

\* the put of this step finds n entries, removes the sweep_count oldest of
\* them, counts each removal, and then stores its entry among the others
SweepsThenInserts(sweep_count) ==
    LET left == DropOldest(search_cache, sweep_count)
    IN  /\ search_cache' = SetEntry(left, ret'.key, ret'.val)
        /\ cache_stats'.evictions = cache_stats.evictions + sweep_count
        /\ DOMAIN cache_timestamps' = CacheKeys(left) \cup {ret'.key}

\* C25: a put that finds the estimated memory footprint of the cache above
\* the budget first evicts the oldest 25% of the n entries present
\* (floor(n/4), and at least one when the cache is not empty), counts each
\* of them as an eviction, and only then inserts the new entry.
C25_SweepQuarter ==
    [][ (IsPut /\ StrLen(search_cache) > cache_max_memory)
          => SweepsThenInserts(IF search_cache = <<>> THEN 0
                               ELSE Max(1, Len(search_cache) \div 4)) ]_vars

\* a put has found eight entries above the budget and has removed the two
\* oldest of them before it stored its own
C25_Witness ==
    /\ ret.op = "put"
    /\ ret.over
    /\ Len(ret.before) = 8
    /\ Len(search_cache) = 7
    /\ cache_stats.evictions >= 2
    /\ ret.key \in CacheKeys(search_cache)
    /\ ret.before[1] \notin CacheKeys(search_cache)
    /\ ret.before[2] \notin CacheKeys(search_cache)

\* ------------------------------------------------------------------------
\* Claims on the word indices
\* ------------------------------------------------------------------------

\* a token is written in lower case
IsLowerCase(word) == \A i \in DOMAIN word : word[i] # "Q"

\* the verses stored under a token
Refs(word_index, word) ==
    {word_index[word][k] : k \in DOMAIN word_index[word]}

\* C26: after the index is built, every verse reference stored under a token
\* of a word index belongs to a verse whose indexed field (the translation;
\* or the original text or the gloss) contains that token, and every token
\* is lower-cased with a length of at least 3.
C26_BucketsHoldTheirToken ==
    pc.main = "ready" =>
        /\ \A word \in DOMAIN frame.translation_word_index :
              /\ IsLowerCase(word)
              /\ Len(word) >= 3
              /\ \A i \in Refs(frame.translation_word_index, word) :
                    IsSubstring(word, Lower(corpus[i].translation))
        /\ \A word \in DOMAIN frame.sanskrit_word_index :
              /\ IsLowerCase(word)
              /\ Len(word) >= 3
              /\ \A i \in Refs(frame.sanskrit_word_index, word) :
                    \/ IsSubstring(word, Lower(corpus[i].sloka_text))
                    \/ IsSubstring(word, Lower(corpus[i].meaning))

\* the index is built from a verse whose translation holds a capitalised
\* word and from a verse with a short word, and a verse is stored under a
\* token of its gloss that its original text does not hold
C26_Witness ==
    /\ pc.main = "ready"
    /\ \E i \in DOMAIN corpus :
          /\ ~ IsLowerCase(corpus[i].translation)
          /\ i \in Refs(frame.translation_word_index, <<"q", "q", "q">>)
    /\ \E i \in DOMAIN corpus :
          /\ IsSubstring(<<"q", "q", " ">>, corpus[i].translation)
          /\ <<"r", "r", "r">> \in DOMAIN frame.translation_word_index
          /\ i \in Refs(frame.translation_word_index, <<"r", "r", "r">>)
    /\ \E i \in DOMAIN corpus :
          /\ <<"q", "q", "q">> \in DOMAIN frame.sanskrit_word_index
          /\ i \in Refs(frame.sanskrit_word_index, <<"q", "q", "q">>)
          /\ ~ IsSubstring(<<"q", "q", "q">>, Lower(corpus[i].sloka_text))

\* a list without repeated elements
NoRepeats(s) == \A a, b \in DOMAIN s : s[a] = s[b] => a = b

\* C27: the bucket of every token of a word index is a set of verse
\* references: no verse is stored more than once under the same token, also
\* when the token occurs several times in the verse.
C27_BucketsAreSets ==
    pc.main = "ready" =>
        /\ \A word \in DOMAIN frame.translation_word_index :
              NoRepeats(frame.translation_word_index[word])
        /\ \A word \in DOMAIN frame.sanskrit_word_index :
              NoRepeats(frame.sanskrit_word_index[word])

\* the verses whose translation holds a token of the query
TranslationMatches(query) ==
    {i \in DOMAIN corpus :
        \E word \in Range(ExtractWords(query)) :
            word \in Range(ExtractWords(corpus[i].translation))}

\* C28: the candidates of a query are exactly the verses whose indexed
\* field contains at least one token (length >= 3) of the query, each verse
\* once; they are the empty set when the query has no such token or no
\* token is in the index, and the search then scores the full corpus
\* instead.
C28_CandidatesAreMatches ==
    /\ ret.op = "translation_candidates" =>
          /\ ~ ret.raised
          /\ Range(ret.out) = TranslationMatches(ret.query)
          /\ NoRepeats(ret.out)
    /\ ret.op = "search" =>
          /\ ~ ret.raised
          /\ ret.scored # <<>> =>
                Range(ret.scored) =
                    IF TranslationMatches(Strip(Lower(ret.query))) = {}
                    THEN Range(frame.translation_index)
                    ELSE TranslationMatches(Strip(Lower(ret.query)))

\* ------------------------------------------------------------------------
\* Claims on the chunks
\* ------------------------------------------------------------------------

\* the chunks one after the other
RECURSIVE Concat(_)
Concat(chunks) ==
    IF chunks = <<>> THEN <<>> ELSE Head(chunks) \o Concat(Tail(chunks))

\* C29: for every number n of candidates, the chunks cover every candidate
\* exactly once, and the number of chunks never exceeds the size of the
\* worker pool that scores them.
C29_ChunksFitPool ==
    pc.main = "submit" =>
        /\ Concat(frame.chunks) = frame.candidates
        /\ \A j \in DOMAIN frame.chunks : frame.chunks[j] # <<>>
        /\ Len(frame.chunks) <= frame.pool

\* ------------------------------------------------------------------------
\* Claims on the search of the original text
\* ------------------------------------------------------------------------

\* the verses a call searches
InScope(r) ==
    {i \in DOMAIN corpus : r.op = "sanskrit_kanda" => corpus[i].kanda = r.kanda}

\* the call has scored the verses and has returned every match
OriginalScored(r) ==
    /\ r.op \in {"sanskrit", "sanskrit_kanda"}
    /\ r.wrote
    /\ r.op = "sanskrit" => Len(r.out) < r.max_results

\* every verse of the scope whose larger score is above the threshold of
\* the call is in the list, with that score, and no other verse is
MaxOfTextAndGloss(r) ==
    /\ \A i \in InScope(r) :
          SanskritRatio(corpus[i], Lower(r.query)) > r.threshold
              <=> corpus[i].id \in Slokas(r.out)
    /\ \A k \in DOMAIN r.out :
          \E i \in InScope(r) :
              /\ corpus[i].id = r.out[k].sloka_number
              /\ r.out[k].ratio = SanskritRatio(corpus[i], Lower(r.query))

\* C30: in original mode the score of a verse is the maximum of the
\* similarity of the query against its original text and against its gloss,
\* and the verse is returned when that maximum passes the threshold, in the
\* search over all kandas and in the search in one kanda.
C30_MaxOfTextAndGloss == OriginalScored(ret) => MaxOfTextAndGloss(ret)

\* ------------------------------------------------------------------------
\* Claims on the put of a key that is already cached
\* ------------------------------------------------------------------------

\* the put of this step finds its key stored and unexpired, and the memory
\* estimate within the budget
IsOverwrite ==
    /\ IsPut
    /\ ret'.key \in CacheKeys(search_cache)
    /\ now - cache_timestamps[ret'.key] < CacheTTL
    /\ StrLen(search_cache) <= cache_max_memory

\* the entries of sc under the keys other than key
OtherEntries(sc, key) == {sc[i] : i \in {j \in DOMAIN sc : sc[j].key # key}}

\* C31: a put for a key that is already present in the cache replaces that
\* key's value and timestamp only: it evicts no entry and leaves the set of
\* cached keys unchanged, also when the cache holds the maximum number of
\* entries.
C31_OverwriteKeepsEntries ==
    [][ IsOverwrite =>
          /\ CacheKeys(search_cache') = CacheKeys(search_cache)
          /\ OtherEntries(search_cache', ret'.key)
                = OtherEntries(search_cache, ret'.key)
          /\ DOMAIN cache_timestamps' = DOMAIN cache_timestamps
          /\ \A k \in DOMAIN cache_timestamps \ {ret'.key} :
                cache_timestamps'[k] = cache_timestamps[k]
          /\ cache_stats'.evictions = cache_stats.evictions ]_vars

\* ------------------------------------------------------------------------
\* Claims on the searches answered from the cache
\* ------------------------------------------------------------------------

\* the step is a search whose lookup is counted as a hit
IsHit ==
    /\ nops' = nops + 1
    /\ ret'.op \in {"translation", "sanskrit", "translation_kanda",
                    "sanskrit_kanda"}
    /\ cache_stats'.hits = cache_stats.hits + 1

\* the list the lookup of this step found (a hit moves its entry to the
\* end, and so does a write under the same key)
HitList == CacheLookup(search_cache, search_cache'[Len(search_cache')].key)

\* C32: whenever a search finds an unexpired cache entry for its key (the
\* lookup is counted as a hit), it returns the cached list without scoring
\* any verse and without writing the cache, also when the cached list is
\* empty.
C32_HitReturnsCachedList ==
    [][ IsHit =>
          /\ ret'.scored = 0
          /\ ~ret'.wrote
          /\ ret'.out = IF ret'.op \in {"translation", "sanskrit"}
                        THEN PySlice(HitList, 0, ret'.max_results)
                        ELSE HitList
          /\ cache_timestamps' = cache_timestamps ]_vars

\* ------------------------------------------------------------------------
\* Claims on the caching of incomplete result lists
\* ------------------------------------------------------------------------

\* the case of C33: the search returned after the wait for a chunk timed
\* out, and its list is not empty and lacks results of the full search
ReturnedPartialList ==
    /\ pc.main = "returned"
    /\ ret.path = "parallel"
    /\ ret.timed_out # {}
    /\ ret.out # <<>>
    /\ ret.out # SearchOf(corpus)

\* C33: a result list is written to the cache only when every chunk of the
\* query completed successfully: a query in which a chunk failed or timed
\* out does not put its partial result list in the cache, so a later
\* identical query is not answered with the partial list.
C33_PartialListNotCached ==
    ReturnedPartialList =>
        \/ frame.main.cache_key \notin CacheKeys(search_cache)
        \/ CacheLookup(search_cache, frame.main.cache_key) # ret.out

\* ------------------------------------------------------------------------
\* Claims on the eviction of expired entries
\* ------------------------------------------------------------------------

\* the entry stored under key k has not expired when the step begins
Unexpired(k) == now - cache_timestamps[k] < CacheTTL

\* the keys whose entries the step removes, and those it leaves stored
Removed == CacheKeys(search_cache) \ CacheKeys(search_cache')
LeftStored == CacheKeys(search_cache) \cap CacheKeys(search_cache')

\* C34: a put never evicts an unexpired entry for lack of room while an
\* expired entry is still physically stored in the cache: expired entries
\* are removed before any unexpired one (here: the put of a key that is
\* not stored, with the memory estimate within the budget).
C34_ExpiredEvictedFirst ==
    [][ (IsPut /\ ret'.key \notin CacheKeys(search_cache)
               /\ StrLen(search_cache) <= cache_max_memory)
          => \A k \in Removed :
                Unexpired(k) => \A e \in LeftStored : Unexpired(e) ]_vars

\* ------------------------------------------------------------------------
\* Claims on the batches of the streaming search
\* ------------------------------------------------------------------------

\* a streaming response over all kandas is under way or has ended
StreamOverAllKandas ==
    /\ ret.op = "stream"
    /\ ret.status = 200
    /\ ret.kanda = 0

\* the batches search_stream has yielded so far, as the response carries
\* them
YieldedBatches ==
    LET batch_events == SelectSeq(ret.events, LAMBDA ev : ev.type = "batch")
    IN  [i \in DOMAIN batch_events |-> batch_events[i].results]

\* the results of the verses of the index whose score passes the threshold
PassingResults ==
    ParallelSearchChunk(IF ret.search_type = "translation"
                        THEN TranslationIndex(corpus) ELSE SanskritIndex(corpus),
                        Strip(Lower(ret.query)), ret.threshold,
                        FieldOf(ret.search_type))

\* every batch is non-empty and holds at most batch_size results, no verse
\* is in two batches or twice in one, and once the stream has ended the
\* batches hold exactly the passing verses
BatchesDeliverEachOnce ==
    LET delivered == Flatten(YieldedBatches)
    IN  /\ \A i \in DOMAIN YieldedBatches :
              /\ YieldedBatches[i] # <<>>
              /\ Len(YieldedBatches[i]) <= ret.batch_size
        /\ \A i, j \in DOMAIN delivered :
              delivered[i].sloka_number = delivered[j].sloka_number => i = j
        /\ ResultSet(delivered) \subseteq ResultSet(PassingResults)
        /\ pc.gen = "closed" => ResultSet(delivered) = ResultSet(PassingResults)

\* C35 as stated: every batch yielded by search_stream is non-empty and
\* holds at most batch_size results, and every verse of the index whose
\* score passes the threshold is delivered in exactly one batch (no result
\* is lost or repeated across batches).
C35_Original == StreamOverAllKandas => BatchesDeliverEachOnce

\* C35 as amended: the same, for a batch_size of at least 1 (for a
\* batch_size of 0 or less search_stream yields no batch at all).
C35_BatchesDeliverEachOnce ==
    (StreamOverAllKandas /\ ret.batch_size >= 1) => BatchesDeliverEachOnce

\* a stream of batch size 2 has ended after a full batch and a batch of the
\* one result that was left over when the index was exhausted
C35_Witness ==
    /\ StreamOverAllKandas
    /\ pc.gen = "closed"
    /\ ret.batch_size = 2
    /\ Len(YieldedBatches) = 2
    /\ Len(YieldedBatches[1]) = 2
    /\ Len(YieldedBatches[2]) = 1
    /\ Len(PassingResults) = 3

\* ------------------------------------------------------------------------
\* Claims on the scoring of the candidates
\* ------------------------------------------------------------------------

\* the case of C36: a search whose query has a token in the word index
SearchWithCandidates ==
    /\ ret.op = "search"
    /\ TranslationMatches(Strip(Lower(ret.query))) # {}

\* the list obtained by scoring the full corpus for the query of the call
FullCorpusList ==
    PySlice(SortByRatioDesc(
                ParallelFuzzySearch(frame.translation_index, corpus,
                                    Strip(Lower(ret.query)), DefaultThreshold)),
            0, ret.max_results)

\* C36: when the word index yields a non-empty candidate set, restricting
\* the scoring to those candidates loses no result: the returned list
\* equals the list obtained by scoring the full corpus for the same query
\* and threshold.
C36_CandidatesLoseNothing ==
    SearchWithCandidates =>
        /\ ~ ret.raised
        /\ ret.out = FullCorpusList

\* ------------------------------------------------------------------------
\* Claims on the statistics of the streaming searches
\* ------------------------------------------------------------------------

\* no generator is between its start and the end of its increment
NoIncrementUnderWay == \A th \in Threads : pc[th] \notin {"load", "store"}

\* C37: under any interleaving of concurrent streaming searches, the
\* total_searches counter reported in the statistics equals the number of
\* search_stream runs started with a non-empty query (no increment is
\* lost).
C37_NoLostIncrement ==
    NoIncrementUnderWay => sweep.total_searches = putLog.started


\* the step is taken by a generator of search_stream: a thread starts one
\* (also one that returns at once, for an empty query) or resumes its own
IsStreamStep ==
    \/ pc' # pc
    \/ frame' # frame
    \/ (nops' = nops + 1 /\ ret'.call = ret.call)

\* C38: search_stream leaves the query cache unchanged: it neither reads
\* nor writes cache entries, and the hit, miss and eviction counters are
\* the same before and after a streaming search.
C38_StreamLeavesCache ==
    [][ IsStreamStep =>
          UNCHANGED <<search_cache, cache_timestamps, cache_stats>> ]_vars

\* a generator has yielded a batch and reached its finally block in a
\* service whose cache holds an entry and has counted a miss and a hit
C38_Witness ==
    \E th \in Threads :
        /\ pc[th] = "finally"
        /\ frame[th].yields >= 1
        /\ search_cache # <<>>
        /\ cache_stats.misses >= 1
        /\ cache_stats.hits >= 1

\* ------------------------------------------------------------------------
\* Claims on the two dictionaries of the cache
\* ------------------------------------------------------------------------

\* C39: in every reachable state, under any interleaving of get and put
\* calls, the set of keys of the cached results equals the set of keys of
\* the cache timestamps (no entry without a timestamp and no timestamp
\* without an entry); a cache method changes both dictionaries in one step
\* under the lock.
C39_KeysPaired == CacheKeys(search_cache) = DOMAIN cache_timestamps

\* a thread has put a key into the full cache, which evicted an entry,
\* after a put of the other thread returned
C39_Witness ==
    \E a, b \in Threads :
        /\ a # b
        /\ pc[a] = "release"
        /\ frame[a].op = "put"
        /\ ret.op = "put"
        /\ ret.thread = b
        /\ cache_stats.evictions >= 1
        /\ Len(search_cache) = cache_max_size
        /\ frame[a].key \in DOMAIN cache_timestamps

====
